---------------------------- MODULE Spec2Model ----------------------------
(***************************************************************************)
(* A model of the cart-upsell application: the rule store (Shop, Rule,     *)
(* AnalyticsEvent), the admin rule handlers, the storefront /upsells       *)
(* loader, the storefront /track action and the plan gate of billing.ts.   *)
(*                                                                         *)
(* Identifiers (product ids, cart ids) are sequences of tokens: the token  *)
(* Gid stands for the literal text "gid://shopify/Product/", a digit token *)
(* for one decimal digit, and any other token for a character that is not  *)
(* a digit.  The empty sequence stands for null and for the empty string   *)
(* (both are falsy where the code tests them).                             *)
(***************************************************************************)
EXTENDS Integers, Sequences, FiniteSets, Bags, TLC

VARIABLES
    shops,        \* Shop table: domain -> "none" (no row) or its currentPlan
    rules,        \* Rule table: a set of rule rows, ids unique
    nextRuleId,   \* ids handed out so far: a rule id is never reused
    events,       \* AnalyticsEvent table: a bag of event rows
    tpc,          \* per track request handler: the await it is suspended at
    treq,         \* per track request handler: the request body it handles
    out,          \* the response the step just taken sent, if any
    subs          \* per domain: the billing provider's first active
                  \* subscription of the app installation, or null

vars == <<shops, rules, nextRuleId, events, tpc, treq, out, subs>>

(***************************************************************************)
(* Bounds of the model.                                                    *)
(***************************************************************************)
MaxRuleIds == 2       \* rule rows ever created in the track specifications
MaxEvents == 3        \* event rows held in the track specifications

Null == <<>>
Gid == "gid://shopify/Product/"
Digits == {"0", "1", "2", "3", "4", "5", "6", "7", "8", "9"}

ShopA == "a.myshopify.com"
ShopB == "b.myshopify.com"
Domains == {ShopA, ShopB}

Procs == {"p1", "p2"}

NoOut == [op |-> "none"]

(***************************************************************************)
(* Rule rows.                                                              *)
(***************************************************************************)
RuleById(id) == {r \in rules : r.id = id}

EnabledRulesOf(shopId) == {r \in rules : r.shopId = shopId /\ r.isEnabled}

(***************************************************************************)
(* Event rows.  ON DELETE CASCADE of AnalyticsEvent_ruleId_fkey removes    *)
(* the events of a deleted rule.                                           *)
(***************************************************************************)
EventsWithoutRule(id) ==
    LET keep == {e \in DOMAIN events : e.ruleId # id}
    IN  [e \in keep |-> events[e]]

AddEvent(e) == events (+) SetToBag({e})

NumEvents == BagCardinality(events)


(***************************************************************************)
(* The product lookup of the admin API (admin.graphql getProduct), as the  *)
(* handlers use its answer: "product" is a product with a first variant,   *)
(* "novariant" a product with no variant, "none" no product (data.product  *)
(* is null) and "throw" a failed call.                                     *)
(***************************************************************************)
Lookups == {"product", "novariant", "none", "throw"}

\* The upsell snapshot built from a found product: null is <<>>, a snapshot
\* is a one-element sequence holding the record.
Snapshot(ref, lookup) ==
    <<[of        |-> ref,
       title     |-> "title",
       price     |-> IF lookup = "product" THEN "1999" ELSE "0",
       variantId |-> IF lookup = "product" THEN <<"variant">> \o ref ELSE Null]>>

(***************************************************************************)
(* app._index.tsx loader: the shop row is created on first access.         *)
(***************************************************************************)
InstallShop(d) ==
    /\ shops[d] = "none"
    /\ shops' = [shops EXCEPT ![d] = "FREE"]
    /\ out' = NoOut
    /\ UNCHANGED <<rules, nextRuleId, events, tpc, treq, subs>>

\* A validation of the presence of the fields alone.
FormErrorsFieldsOnly(form) ==
    (IF form.name = Null THEN {"name"} ELSE {})
    \cup (IF form.triggerType = "" THEN {"triggerType"} ELSE {})
    \cup (IF form.triggerType = "PRODUCT" /\ form.triggerProductId = Null
          THEN {"triggerProductId"} ELSE {})
    \cup (IF form.triggerType = "COLLECTION" /\ form.triggerCollectionId = Null
          THEN {"triggerCollectionId"} ELSE {})
    \cup (IF form.upsellProductId = Null THEN {"upsellProductId"} ELSE {})

(***************************************************************************)
(* The field validation shared by the create and the edit action: the set  *)
(* of keys of the errors object.                                           *)
(***************************************************************************)
FormErrors(form) ==
    (IF form.name = Null THEN {"name"} ELSE {})
    \cup (IF form.triggerType = "" THEN {"triggerType"} ELSE {})
    \cup (IF form.triggerType = "PRODUCT" /\ form.triggerProductId = Null
          THEN {"triggerProductId"} ELSE {})
    \cup (IF form.triggerType = "COLLECTION" /\ form.triggerCollectionId = Null
          THEN {"triggerCollectionId"} ELSE {})
    \cup (IF form.upsellProductId = Null THEN {"upsellProductId"} ELSE {})
    \cup (IF form.triggerType = "PRODUCT"
             /\ form.triggerProductId = form.upsellProductId
          THEN {"upsellProductId"} ELSE {})

\* app.rules.new.tsx action, lines 92-99: the plan check of rule creation.
PlanError(d, form) ==
    IF /\ shops[d] = "FREE"
       /\ Cardinality(EnabledRulesOf(d)) >= 1
       /\ form.isEnabled
    THEN {"plan"} ELSE {}

\* loader of app.rules.new.tsx, lines 11-37: the page data with the
\* canCreateRule flag of line 28, computed from the shop row and its enabled
\* rules.  A missing shop row throws.
NewRuleLoader(d) ==
    /\ IF shops[d] = "none"
       THEN out' = [op |-> "newRulePage", status |-> 500, plan |-> "",
                    activeRulesCount |-> 0, canCreateRule |-> FALSE]
       ELSE out' = [op |-> "newRulePage", status |-> 200, plan |-> shops[d],
                    activeRulesCount |-> Cardinality(EnabledRulesOf(d)),
                    canCreateRule |-> \/ shops[d] # "FREE"
                                      \/ Cardinality(EnabledRulesOf(d)) < 1]
    /\ UNCHANGED <<shops, rules, nextRuleId, events, tpc, treq, subs>>

\* The row written by prisma.rule.create; priority takes the column default.
\* A row whose priority is its creation rank.
NewRuleRanked(id, d, form, lookup) ==
    [id                  |-> id,
     shopId              |-> d,
     isEnabled           |-> form.isEnabled,
     triggerType         |-> form.triggerType,
     triggerProductId    |-> IF form.triggerType = "PRODUCT"
                             THEN form.triggerProductId ELSE Null,
     triggerCollectionId |-> IF form.triggerType = "COLLECTION"
                             THEN form.triggerCollectionId ELSE Null,
     upsellProductId     |-> form.upsellProductId,
     upsellProductData   |-> IF lookup = "none" THEN Null
                             ELSE Snapshot(form.upsellProductId, lookup),
     priority            |-> id]

NewRule(id, d, form, lookup) ==
    [id                  |-> id,
     shopId              |-> d,
     isEnabled           |-> form.isEnabled,
     triggerType         |-> form.triggerType,
     triggerProductId    |-> IF form.triggerType = "PRODUCT"
                             THEN form.triggerProductId ELSE Null,
     triggerCollectionId |-> IF form.triggerType = "COLLECTION"
                             THEN form.triggerCollectionId ELSE Null,
     upsellProductId     |-> form.upsellProductId,
     upsellProductData   |-> IF lookup = "none" THEN Null
                             ELSE Snapshot(form.upsellProductId, lookup),
     priority            |-> 0]

\* The values of the TriggerType enum of the schema; a write of any other
\* value is refused by the store client and the action throws.
TriggerTypes == {"PRODUCT", "COLLECTION"}

(***************************************************************************)
(* app.rules.new.tsx action: create a rule for the authenticated shop d.   *)
(* The response record carries the submitted form.                         *)
(***************************************************************************)
CreateRule(d, form, lookup) ==
    /\ nextRuleId < MaxRuleIds
    /\ LET errors == IF shops[d] = "none" THEN {}
                     ELSE FormErrors(form) \cup PlanError(d, form)
       IN  IF shops[d] = "none"
           THEN /\ out' = [op |-> "create", status |-> 404, errors |-> {},
                           req |-> form]
                /\ UNCHANGED <<rules, nextRuleId>>
           ELSE IF errors # {}
           THEN /\ out' = [op |-> "create", status |-> 400, errors |-> errors,
                           req |-> form]
                /\ UNCHANGED <<rules, nextRuleId>>
           ELSE IF lookup = "throw"
           THEN /\ out' = [op |-> "create", status |-> 400,
                           errors |-> {"upsellProductId"}, req |-> form]
                /\ UNCHANGED <<rules, nextRuleId>>
           ELSE IF form.triggerType \notin TriggerTypes
           THEN /\ out' = [op |-> "create", status |-> 500, errors |-> {},
                           req |-> form]
                /\ UNCHANGED <<rules, nextRuleId>>
           ELSE /\ rules' = rules \cup {NewRule(nextRuleId + 1, d, form, lookup)}
                /\ nextRuleId' = nextRuleId + 1
                /\ out' = [op |-> "create", status |-> 302, errors |-> {},
                           req |-> form]
    /\ UNCHANGED <<shops, events, tpc, treq, subs>>

(***************************************************************************)
(* The rules index action (delete and toggle intents): the rule is         *)
(* addressed by id alone; an id with no row makes the store call throw.    *)
(***************************************************************************)
\* The response record of a delete carries the number of event rows the
\* cascade removed.
DeleteOut(status, removed) ==
    [op |-> "delete", status |-> status, removed |-> removed]

\* A delete of the rule row under a foreign key without cascade action that
\* is not enforced: the events of the rule stay.
DeleteRuleKeepEvents(d, ruleId) ==
    /\ IF shops[d] = "none"
       THEN /\ out' = DeleteOut(404, 0)
            /\ UNCHANGED <<rules, events>>
       ELSE IF RuleById(ruleId) = {}
       THEN /\ out' = DeleteOut(500, 0)
            /\ UNCHANGED <<rules, events>>
       ELSE /\ rules' = rules \ RuleById(ruleId)
            /\ events' = events
            /\ out' = DeleteOut(200, 0)
    /\ UNCHANGED <<shops, nextRuleId, tpc, treq, subs>>

DeleteRule(d, ruleId) ==
    /\ IF shops[d] = "none"
       THEN /\ out' = DeleteOut(404, 0)
            /\ UNCHANGED <<rules, events>>
       ELSE IF RuleById(ruleId) = {}
       THEN /\ out' = DeleteOut(500, 0)
            /\ UNCHANGED <<rules, events>>
       ELSE /\ rules' = rules \ RuleById(ruleId)
            /\ events' = EventsWithoutRule(ruleId)
            /\ out' = DeleteOut(200, NumEvents
                                      - BagCardinality(EventsWithoutRule(ruleId)))
    /\ UNCHANGED <<shops, nextRuleId, tpc, treq, subs>>

(***************************************************************************)
(* A delete of the shop row.  No route of the application issues it; what  *)
(* it removes is decided by the foreign keys of the schema: the rules of   *)
(* the shop (Rule_shopId_fkey) and the events of the shop and of those     *)
(* rules (AnalyticsEvent_shopId_fkey, AnalyticsEvent_ruleId_fkey), all ON  *)
(* DELETE CASCADE.                                                         *)
(***************************************************************************)
DeleteShop(d) ==
    /\ shops[d] # "none"
    /\ shops' = [shops EXCEPT ![d] = "none"]
    /\ rules' = {r \in rules : r.shopId # d}
    /\ LET keep == {e \in DOMAIN events :
                      /\ e.shopId # d
                      /\ \A r \in RuleById(e.ruleId) : r.shopId # d}
       IN  events' = [e \in keep |-> events[e]]
    /\ out' = [op |-> "deleteShop", removed |-> NumEvents - BagCardinality(events')]
    /\ UNCHANGED <<nextRuleId, tpc, treq, subs>>

ToggleRule(d, ruleId, isEnabled) ==
    /\ IF shops[d] = "none"
       THEN /\ out' = [op |-> "toggle", status |-> 404]
            /\ UNCHANGED rules
       ELSE IF RuleById(ruleId) = {}
       THEN /\ out' = [op |-> "toggle", status |-> 500]
            /\ UNCHANGED rules
       ELSE /\ rules' = {IF r.id = ruleId
                           THEN [r EXCEPT !.isEnabled = isEnabled] ELSE r
                         : r \in rules}
            /\ out' = [op |-> "toggle", status |-> 200]
    /\ UNCHANGED <<shops, nextRuleId, events, tpc, treq, subs>>

(***************************************************************************)
(* The rule edit action: validation without a plan check, the upsell       *)
(* snapshot fetched again only when the upsell product id changed, and an  *)
(* update addressed by id alone.  The response record carries the rule id, *)
(* the submitted form and whether the upsell product query was sent.       *)
(***************************************************************************)
\* An update that writes both submitted trigger ids.
EditedRuleBothTriggers(r, form, lookup) ==
    [r EXCEPT
       !.isEnabled           = form.isEnabled,
       !.triggerType         = form.triggerType,
       !.triggerProductId    = form.triggerProductId,
       !.triggerCollectionId = form.triggerCollectionId,
       !.upsellProductId     = form.upsellProductId,
       !.upsellProductData   = IF form.upsellProductId # r.upsellProductId
                                  /\ lookup # "none"
                               THEN Snapshot(form.upsellProductId, lookup)
                               ELSE r.upsellProductData]

\* An update that takes the snapshot from a lookup made on every edit.
EditedRuleRefetched(r, form, lookup) ==
    [r EXCEPT
       !.isEnabled           = form.isEnabled,
       !.triggerType         = form.triggerType,
       !.triggerProductId    = IF form.triggerType = "PRODUCT"
                               THEN form.triggerProductId ELSE Null,
       !.triggerCollectionId = IF form.triggerType = "COLLECTION"
                               THEN form.triggerCollectionId ELSE Null,
       !.upsellProductId     = form.upsellProductId,
       !.upsellProductData   = IF lookup \notin {"none", "throw"}
                               THEN Snapshot(form.upsellProductId, lookup)
                               ELSE r.upsellProductData]

EditedRule(r, form, lookup) ==
    [r EXCEPT
       !.isEnabled           = form.isEnabled,
       !.triggerType         = form.triggerType,
       !.triggerProductId    = IF form.triggerType = "PRODUCT"
                               THEN form.triggerProductId ELSE Null,
       !.triggerCollectionId = IF form.triggerType = "COLLECTION"
                               THEN form.triggerCollectionId ELSE Null,
       !.upsellProductId     = form.upsellProductId,
       !.upsellProductData   = IF form.upsellProductId # r.upsellProductId
                                  /\ lookup # "none"
                               THEN Snapshot(form.upsellProductId, lookup)
                               ELSE r.upsellProductData]

EditRule(d, ruleId, form, lookup) ==
    /\ ruleId # 0
    /\ LET current == RuleById(ruleId)
           fetches == \/ current = {}
                      \/ \E r \in current : form.upsellProductId # r.upsellProductId
           EditOut(status, errors, fetched) ==
               [op |-> "edit", status |-> status, errors |-> errors,
                ruleId |-> ruleId, req |-> form, fetched |-> fetched]
       IN  IF shops[d] = "none"
           THEN /\ out' = EditOut(404, {}, FALSE)
                /\ UNCHANGED rules
           ELSE IF FormErrors(form) # {}
           THEN /\ out' = EditOut(400, FormErrors(form), FALSE)
                /\ UNCHANGED rules
           ELSE IF fetches /\ lookup = "throw"
           THEN /\ out' = EditOut(400, {"upsellProductId"}, TRUE)
                /\ UNCHANGED rules
           ELSE IF current = {} \/ form.triggerType \notin TriggerTypes
           THEN /\ out' = EditOut(500, {}, fetches)
                /\ UNCHANGED rules
           ELSE /\ rules' = {IF r.id = ruleId THEN EditedRule(r, form, lookup)
                             ELSE r : r \in rules}
                /\ out' = EditOut(302, {}, fetches)
    /\ UNCHANGED <<shops, nextRuleId, events, tpc, treq, subs>>

(***************************************************************************)
(* api.storefront.track.tsx action (the app proxy track action is the same *)
(* code without the CORS headers).  A request body is a record             *)
(*   [method, eventType, ruleId, shopDomain, sessionId, productPrice]      *)
(* where "" (eventType, shopDomain, sessionId), 0 (ruleId) and <<>>        *)
(* (productPrice) stand for an absent, null or empty field.  The cartToken *)
(* is copied to the row and read by nothing; the model leaves it out.      *)
(* The handler is suspended at each store call, so one action models the   *)
(* code up to the next await:                                              *)
(*   TrackBegin     lines 42-75   method and field validation              *)
(*   TrackFindShop  lines 77-90   prisma.shop.findUnique                   *)
(*   TrackFindRule  lines 92-108  prisma.rule.findUnique                   *)
(*   TrackDedup     lines 110-127 prisma.analyticsEvent.findFirst          *)
(*   TrackCreate    lines 129-146 prisma.analyticsEvent.create             *)
(***************************************************************************)
NoReq == [method |-> ""]

(***************************************************************************)
(* The creation action step by step.  The shop row and its enabled rules   *)
(* are read by the findUnique of lines 43-50; the validation and the plan  *)
(* check of lines 60-103 use that result; the product queries (awaits) and *)
(* the prisma.rule.create of lines 214-227 follow.  CreateFind is the      *)
(* read, CreateInsert the rest: another request can run between them.      *)
(***************************************************************************)
CreateOut(status, errors, form) ==
    [op |-> "create", status |-> status, errors |-> errors, req |-> form]

CreateFind(p, d, form) ==
    /\ tpc[p] = "idle"
    /\ nextRuleId + Cardinality({q \in Procs : tpc[q] = "insert"}) < MaxRuleIds
    /\ IF shops[d] = "none"
       THEN /\ out' = CreateOut(404, {}, form)
            /\ UNCHANGED <<tpc, treq>>
       ELSE /\ tpc' = [tpc EXCEPT ![p] = "insert"]
            /\ treq' = [treq EXCEPT ![p] =
                           [method |-> "create", shop |-> d, form |-> form,
                            currentPlan |-> shops[d],
                            enabledRules |-> Cardinality(EnabledRulesOf(d))]]
            /\ out' = NoOut
    /\ UNCHANGED <<shops, rules, nextRuleId, events, subs>>

CreateInsert(p, lookup) ==
    /\ tpc[p] = "insert"
    /\ LET req == treq[p]
           form == req.form
           plan == IF /\ req.currentPlan = "FREE"
                      /\ req.enabledRules >= 1
                      /\ form.isEnabled
                   THEN {"plan"} ELSE {}
           errors == FormErrors(form) \cup plan
       IN  IF errors # {}
           THEN /\ out' = CreateOut(400, errors, form)
                /\ UNCHANGED <<rules, nextRuleId>>
           ELSE IF lookup = "throw"
           THEN /\ out' = CreateOut(400, {"upsellProductId"}, form)
                /\ UNCHANGED <<rules, nextRuleId>>
           ELSE IF form.triggerType \notin TriggerTypes
           THEN /\ out' = CreateOut(500, {}, form)
                /\ UNCHANGED <<rules, nextRuleId>>
           ELSE /\ rules' = rules \cup
                             {NewRule(nextRuleId + 1, req.shop, form, lookup)}
                /\ nextRuleId' = nextRuleId + 1
                /\ out' = CreateOut(302, {}, form)
    /\ tpc' = [tpc EXCEPT ![p] = "idle"]
    /\ treq' = [treq EXCEPT ![p] = NoReq]
    /\ UNCHANGED <<shops, events, subs>>

TrackOut(p, status, tracked, reason) ==
    [op |-> "track", proc |-> p, req |-> treq[p], status |-> status,
     tracked |-> tracked, reason |-> reason]

\* The handler of p returns: its response is out, and p is idle again.
TrackReturn(p, status, tracked, reason) ==
    /\ out' = TrackOut(p, status, tracked, reason)
    /\ tpc' = [tpc EXCEPT ![p] = "idle"]
    /\ treq' = [treq EXCEPT ![p] = NoReq]

TrackGoto(p, label) ==
    /\ out' = NoOut
    /\ tpc' = [tpc EXCEPT ![p] = label]
    /\ UNCHANGED treq

EventTypes == {"IMPRESSION", "CONVERSION"}

\* Numbers are decimals with two fraction digits, held as a count of
\* hundredths (the productPrice column is DECIMAL(10,2), and the amounts
\* and prices of the model have at most two fraction digits), or NaN.
Num(n) == [nan |-> FALSE, cents |-> n]

NaN == [nan |-> TRUE, cents |-> 0]

RECURSIVE LeadingDigits(_)
LeadingDigits(s) ==
    IF s = <<>> \/ Head(s) \notin Digits THEN <<>>
    ELSE <<Head(s)>> \o LeadingDigits(Tail(s))

DigitValue(d) == CHOOSE n \in 0..9 : ToString(n) = d

RECURSIVE DigitsValue(_)
DigitsValue(s) ==
    IF s = <<>> THEN 0
    ELSE 10 * DigitsValue(SubSeq(s, 1, Len(s) - 1)) + DigitValue(s[Len(s)])

\* parseFloat reads an optional sign, digits and an optional fraction from
\* the start of its argument, ignores what follows, and is NaN when it
\* finds no digit.
ParseFloat(price) ==
    LET signed == price # <<>> /\ Head(price) \in {"-", "+"}
        body   == IF signed THEN Tail(price) ELSE price
        whole  == LeadingDigits(body)
        rest   == SubSeq(body, Len(whole) + 1, Len(body))
        frac   == IF rest # <<>> /\ Head(rest) = "."
                  THEN LeadingDigits(Tail(rest)) ELSE <<>>
        cents  == SubSeq(frac \o <<"0", "0">>, 1, 2)
        size   == 100 * DigitsValue(whole) + DigitsValue(cents)
    IN  IF whole = <<>> /\ frac = <<>> THEN NaN
        ELSE IF signed /\ Head(price) = "-" THEN Num(0 - size)
        ELSE Num(size)

\* The row of prisma.analyticsEvent.create, lines 130-141.

EventRow(req) ==
    [shopId       |-> req.shopDomain,
     ruleId       |-> req.ruleId,
     eventType    |-> req.eventType,
     sessionId    |-> req.sessionId,
     productPrice |-> IF req.eventType = "CONVERSION" /\ req.productPrice # Null
                      THEN <<ParseFloat(req.productPrice)>> ELSE Null]

\* A lookup that forgets the session: any IMPRESSION row of the rule.
ExistingImpressionAnySession(req) ==
    {e \in DOMAIN events : e.ruleId = req.ruleId /\ e.eventType = "IMPRESSION"}

\* findFirst of lines 112-118: an IMPRESSION row of the rule and session.
ExistingImpression(req) ==
    {e \in DOMAIN events : /\ e.ruleId = req.ruleId
                           /\ e.eventType = "IMPRESSION"
                           /\ e.sessionId = req.sessionId}

\* A validation that accepts any present eventType.
TrackBeginAnyType(p, body) ==
    /\ tpc[p] = "idle"
    /\ IF body.method # "POST"
       THEN /\ out' = [op |-> "track", proc |-> p, req |-> body, status |-> 405,
                       tracked |-> FALSE, reason |-> "method"]
            /\ UNCHANGED <<tpc, treq>>
       ELSE IF body.eventType = "" \/ body.ruleId = 0 \/ body.shopDomain = ""
       THEN /\ out' = [op |-> "track", proc |-> p, req |-> body, status |-> 400,
                       tracked |-> FALSE, reason |-> "missing"]
            /\ UNCHANGED <<tpc, treq>>
       ELSE /\ out' = NoOut
            /\ tpc' = [tpc EXCEPT ![p] = "findShop"]
            /\ treq' = [treq EXCEPT ![p] = body]
    /\ UNCHANGED <<shops, rules, nextRuleId, events, subs>>

TrackBegin(p, body) ==
    /\ tpc[p] = "idle"
    /\ IF body.method # "POST"
       THEN /\ out' = [op |-> "track", proc |-> p, req |-> body, status |-> 405,
                       tracked |-> FALSE, reason |-> "method"]
            /\ UNCHANGED <<tpc, treq>>
       ELSE IF body.eventType = "" \/ body.ruleId = 0 \/ body.shopDomain = ""
       THEN /\ out' = [op |-> "track", proc |-> p, req |-> body, status |-> 400,
                       tracked |-> FALSE, reason |-> "missing"]
            /\ UNCHANGED <<tpc, treq>>
       ELSE IF body.eventType \notin EventTypes
       THEN /\ out' = [op |-> "track", proc |-> p, req |-> body, status |-> 400,
                       tracked |-> FALSE, reason |-> "eventType"]
            /\ UNCHANGED <<tpc, treq>>
       ELSE /\ out' = NoOut
            /\ tpc' = [tpc EXCEPT ![p] = "findShop"]
            /\ treq' = [treq EXCEPT ![p] = body]
    /\ UNCHANGED <<shops, rules, nextRuleId, events, subs>>

TrackFindShop(p) ==
    /\ tpc[p] = "findShop"
    /\ IF treq[p].shopDomain \notin Domains \/ shops[treq[p].shopDomain] = "none"
       THEN TrackReturn(p, 404, FALSE, "shop")
       ELSE TrackGoto(p, "findRule")
    /\ UNCHANGED <<shops, rules, nextRuleId, events, subs>>

\* A rule lookup by id alone, without the shopId of the where clause.
TrackFindRuleAnyShop(p) ==
    /\ tpc[p] = "findRule"
    /\ IF RuleById(treq[p].ruleId) = {}
       THEN TrackReturn(p, 404, FALSE, "rule")
       ELSE IF treq[p].eventType = "IMPRESSION" /\ treq[p].sessionId # ""
       THEN TrackGoto(p, "dedup")
       ELSE TrackGoto(p, "create")
    /\ UNCHANGED <<shops, rules, nextRuleId, events, subs>>

\* A lookup that sends every IMPRESSION to the duplicate check.
TrackFindRuleDedupAll(p) ==
    /\ tpc[p] = "findRule"
    /\ LET rule == {r \in rules : /\ r.id = treq[p].ruleId
                                  /\ r.shopId = treq[p].shopDomain}
       IN  IF rule = {}
           THEN TrackReturn(p, 404, FALSE, "rule")
           ELSE IF treq[p].eventType = "IMPRESSION"
           THEN TrackGoto(p, "dedup")
           ELSE TrackGoto(p, "create")
    /\ UNCHANGED <<shops, rules, nextRuleId, events, subs>>

TrackFindRule(p) ==
    /\ tpc[p] = "findRule"
    /\ LET rule == {r \in rules : /\ r.id = treq[p].ruleId
                                  /\ r.shopId = treq[p].shopDomain}
       IN  IF rule = {}
           THEN TrackReturn(p, 404, FALSE, "rule")
           ELSE IF treq[p].eventType = "IMPRESSION" /\ treq[p].sessionId # ""
           THEN TrackGoto(p, "dedup")
           ELSE TrackGoto(p, "create")
    /\ UNCHANGED <<shops, rules, nextRuleId, events, subs>>

TrackDedup(p) ==
    /\ tpc[p] = "dedup"
    /\ IF ExistingImpression(treq[p]) # {}
       THEN TrackReturn(p, 200, FALSE, "duplicate")
       ELSE TrackGoto(p, "create")
    /\ UNCHANGED <<shops, rules, nextRuleId, events, subs>>

\* An insert under a unique index on (ruleId, sessionId) of IMPRESSION rows:
\* the second insert of a pair fails and the catch block answers 500.
TrackCreateUnique(p) ==
    /\ tpc[p] = "create"
    /\ IF \/ RuleById(treq[p].ruleId) = {}
          \/ /\ treq[p].eventType = "IMPRESSION"
             /\ treq[p].sessionId # ""
             /\ ExistingImpression(treq[p]) # {}
       THEN /\ TrackReturn(p, 500, FALSE, "error")
            /\ UNCHANGED events
       ELSE /\ NumEvents < MaxEvents
            /\ events' = AddEvent(EventRow(treq[p]))
            /\ TrackReturn(p, 200, TRUE, "")
    /\ UNCHANGED <<shops, rules, nextRuleId, subs>>

\* An insert that answers duplicate when the store holds an equal row.
TrackCreateOnce(p) ==
    /\ tpc[p] = "create"
    /\ IF RuleById(treq[p].ruleId) = {}
       THEN /\ TrackReturn(p, 500, FALSE, "error")
            /\ UNCHANGED events
       ELSE IF EventRow(treq[p]) \in DOMAIN events
       THEN /\ TrackReturn(p, 200, FALSE, "duplicate")
            /\ UNCHANGED events
       ELSE /\ NumEvents < MaxEvents
            /\ events' = AddEvent(EventRow(treq[p]))
            /\ TrackReturn(p, 200, TRUE, "")
    /\ UNCHANGED <<shops, rules, nextRuleId, subs>>

\* The insert fails on the foreign keys when the rule row is gone by now;
\* the catch block answers 500.
TrackCreate(p) ==
    /\ tpc[p] = "create"
    /\ IF RuleById(treq[p].ruleId) = {}
       THEN /\ TrackReturn(p, 500, FALSE, "error")
            /\ UNCHANGED events
       ELSE /\ NumEvents < MaxEvents
            /\ events' = AddEvent(EventRow(treq[p]))
            /\ TrackReturn(p, 200, TRUE, "")
    /\ UNCHANGED <<shops, rules, nextRuleId, subs>>

(***************************************************************************)
(* api.storefront.upsells.tsx loader (the app proxy loader without         *)
(* collection support is the same code without the CORS headers).  The     *)
(* products parameter is the sequence of its comma-separated items, each a *)
(* token sequence in which " " is a whitespace character; <<>> is an       *)
(* absent or empty parameter.  The rule table is read by one findMany and  *)
(* nothing is read after it, so the loader is one action.  The response    *)
(* record carries, next to status and offers, the values the loader        *)
(* computed on the way: the parsed cart, the findMany result, the ids of   *)
(* the rules whose matches flag was set and the matchedRules list.  The    *)
(* image and compareAtPrice of an offer are copies of snapshot fields the  *)
(* model does not keep.                                                    *)
(***************************************************************************)
maxOffers == 3

RECURSIVE TrimStart(_)
TrimStart(s) ==
    IF s # <<>> /\ Head(s) = " " THEN TrimStart(Tail(s)) ELSE s

RECURSIVE TrimEnd(_)
TrimEnd(s) ==
    IF s # <<>> /\ s[Len(s)] = " " THEN TrimEnd(SubSeq(s, 1, Len(s) - 1)) ELSE s

Trim(s) == TrimEnd(TrimStart(s))

\* line 40: split(","), trim every item, drop the empty ones.
CartProductIds(productsParam) ==
    SelectSeq([i \in 1..Len(productsParam) |-> Trim(productsParam[i])],
              LAMBDA id : id # <<>>)

Includes(list, x) == \E i \in 1..Len(list) : list[i] = x

\* The greedy \d+ of the pattern: the digits s starts with.
RECURSIVE DigitRun(_)
DigitRun(s) ==
    IF s = <<>> \/ Head(s) \notin Digits THEN <<>>
    ELSE <<Head(s)>> \o DigitRun(Tail(s))

\* extractProductId, lines 74-78: the pattern is not anchored, so the match
\* is the leftmost occurrence of the prefix that a digit follows, and the
\* capture is the digits after it; null when the pattern does not occur.
RECURSIVE extractProductId(_)
extractProductId(gid) ==
    IF gid = Null THEN Null
    ELSE IF Head(gid) = Gid /\ DigitRun(Tail(gid)) # <<>>
    THEN DigitRun(Tail(gid))
    ELSE extractProductId(Tail(gid))

\* A matcher that offers every PRODUCT rule of a shop with a non-empty cart.
TriggerMatchesAnyCart(rule, cartProductIds) ==
    /\ rule.triggerType = "PRODUCT"
    /\ cartProductIds # <<>>

\* lines 86-91: the matches flag of a PRODUCT rule.
TriggerMatches(rule, cartProductIds) ==
    /\ rule.triggerType = "PRODUCT"
    /\ extractProductId(rule.triggerProductId) # Null
    /\ Includes(cartProductIds, extractProductId(rule.triggerProductId))

\* A check that looks for the stored identifier itself among the cart ids.
UpsellInCartRaw(rule, cartProductIds) ==
    /\ rule.upsellProductId # Null
    /\ Includes(cartProductIds, rule.upsellProductId)

\* lines 101-104: the upsell product is already in the cart.
UpsellInCart(rule, cartProductIds) ==
    /\ extractProductId(rule.upsellProductId) # Null
    /\ Includes(cartProductIds, extractProductId(rule.upsellProductId))

\* lines 83-108: the loop over the rules found; a COLLECTION rule is skipped.
RECURSIVE MatchRules(_, _)
MatchRules(found, cartProductIds) ==
    IF found = <<>> THEN <<>>
    ELSE LET rule == Head(found)
             rest == MatchRules(Tail(found), cartProductIds)
         IN  IF rule.triggerType = "COLLECTION" THEN rest
             ELSE IF /\ TriggerMatches(rule, cartProductIds)
                     /\ ~UpsellInCart(rule, cartProductIds)
             THEN <<rule>> \o rest
             ELSE rest

\* The ids of the rules found whose matches flag the loop set.
Triggered(found, cartProductIds) ==
    {found[i].id : i \in {j \in 1..Len(found) :
                             TriggerMatches(found[j], cartProductIds)}}

\* A truncation that keeps the last maxOffers matched rules.
TopRulesFromEnd(matchedRules) ==
    IF Len(matchedRules) <= maxOffers THEN matchedRules
    ELSE SubSeq(matchedRules, Len(matchedRules) - maxOffers + 1, Len(matchedRules))

\* line 112: matchedRules.slice(0, maxOffers).
TopRules(matchedRules) ==
    IF Len(matchedRules) <= maxOffers THEN matchedRules
    ELSE SubSeq(matchedRules, 1, maxOffers)

\* lines 115-130: an offer, with the fallbacks for a missing snapshot field.
FormatOffer(rule) ==
    LET productData == rule.upsellProductData
        has == productData # Null
    IN  [ruleId  |-> rule.id,
         product |-> [id        |-> rule.upsellProductId,
                      variantId |-> IF has /\ productData[1].variantId # Null
                                    THEN productData[1].variantId
                                    ELSE rule.upsellProductId,
                      title     |-> IF has /\ productData[1].title # ""
                                    THEN productData[1].title ELSE "Product",
                      price     |-> IF has /\ productData[1].price # ""
                                    THEN productData[1].price ELSE "0.00",
                      available |-> TRUE]]

Offers(topRules) == [i \in 1..Len(topRules) |-> FormatOffer(topRules[i])]

\* A findMany with no orderBy: the rows in any order.
RECURSIVE AnyOrders(_)
AnyOrders(S) ==
    IF S = {} THEN {<<>>}
    ELSE UNION {{<<r>> \o t : t \in AnyOrders(S \ {r})} : r \in S}

\* orderBy priority asc: the rows in any order that is ascending in
\* priority (the order among rows of one priority is the store's choice).
RECURSIVE PriorityOrders(_)
PriorityOrders(S) ==
    IF S = {} THEN {<<>>}
    ELSE UNION {{<<r>> \o t : t \in PriorityOrders(S \ {r})} :
                r \in {x \in S : \A y \in S : x.priority <= y.priority}}

\* A findMany that forgets the isEnabled filter.
StorefrontRulesAnyFlag(shopId) == {r \in rules : r.shopId = shopId}

\* lines 63-67: the where clause of the findMany.
StorefrontRules(shopId) ==
    {r \in rules : r.shopId = shopId /\ r.isEnabled}

\* The JSON body: lines 28-30 answer a missing shop parameter with an error
\* message and status 400; every other return, the catch of lines 142-153
\* included, is json({offers}).  keys is the set of the body's properties.
UpsellsBodyErrorOnFailure(status, offers) ==
    IF status >= 400
    THEN [keys |-> {"error"}, error |-> "Missing shop parameter", offers |-> <<>>]
    ELSE [keys |-> {"offers"}, error |-> "", offers |-> offers]

UpsellsBody(status, offers) ==
    IF status = 400
    THEN [keys |-> {"error"}, error |-> "Missing shop parameter", offers |-> <<>>]
    ELSE [keys |-> {"offers"}, error |-> "", offers |-> offers]

UpsellsOut(op, shop, productsParam, fault, failing, status, cart, found, triggered, matched, lookups) ==
    [op        |-> op,
     shop      |-> shop,
     products  |-> productsParam,
     fault     |-> fault,
     failing   |-> failing,
     status    |-> status,
     cart      |-> cart,
     found     |-> found,
     triggered |-> triggered,
     matched   |-> matched,
     offers    |-> Offers(TopRules(matched)),
     body      |-> UpsellsBody(status, Offers(TopRules(matched))),
     lookups   |-> lookups]

\* The responses before the rules are read, lines 22-60; a missing shop
\* parameter is the one response that carries no offers list.
UpsellsEarly(op, shop, productsParam, fault) ==
    IF shop = ""
    THEN UpsellsOut(op, shop, productsParam, FALSE, {}, 400,
                    <<>>, <<>>, {}, <<>>, <<>>)
    ELSE IF productsParam = <<>> \/ CartProductIds(productsParam) = <<>>
    THEN UpsellsOut(op, shop, productsParam, FALSE, {}, 200,
                    <<>>, <<>>, {}, <<>>, <<>>)
    ELSE IF fault
    THEN UpsellsOut(op, shop, productsParam, TRUE, {}, 500,
                    CartProductIds(productsParam), <<>>, {}, <<>>, <<>>)
    ELSE UpsellsOut(op, shop, productsParam, FALSE, {}, 200,
                    CartProductIds(productsParam), <<>>, {}, <<>>, <<>>)

ReadsRules(shop, productsParam, fault) ==
    /\ shop \in DOMAIN shops
    /\ shops[shop] # "none"
    /\ productsParam # <<>>
    /\ CartProductIds(productsParam) # <<>>
    /\ ~fault

\* loader: fault says that a store call of this request throws.
UpsellsRequest(shop, productsParam, fault) ==
    /\ IF ReadsRules(shop, productsParam, fault)
       THEN \E found \in PriorityOrders(StorefrontRules(shop)) :
               LET cart == CartProductIds(productsParam)
               IN  out' = UpsellsOut("upsells", shop, productsParam, FALSE, {},
                                     200, cart, found,
                                     Triggered(found, cart),
                                     MatchRules(found, cart), <<>>)
       ELSE out' = UpsellsEarly("upsells", shop, productsParam, fault)
    /\ UNCHANGED <<shops, rules, nextRuleId, events, tpc, treq, subs>>

(***************************************************************************)
(* The loader with collection support (src/unnamed/part_001; the second    *)
(* loader of src/unnamed/part_003 is the same code behind the app proxy):  *)
(* a COLLECTION rule matches when the collections the admin API lists for  *)
(* some cart product include the rule's trigger collection.  Catalog is    *)
(* the shop's catalog as the admin API answers; a lookup that fails        *)
(* answers the empty list.                                                 *)
(***************************************************************************)
Col1 == <<"gid://shopify/Collection/", "1">>
Col2 == <<"gid://shopify/Collection/", "2">>

Catalog(productId) ==
    CASE productId = <<"1">> -> {Col1}
      [] productId = <<"2">> -> {Col1, Col2}
      [] OTHER -> {}

getProductCollections(productId, failing) ==
    IF productId \in failing THEN {} ELSE Catalog(productId)

CollectionMatches(rule, cartProductIds, failing) ==
    /\ rule.triggerType = "COLLECTION"
    /\ \E i \in 1..Len(cartProductIds) :
          rule.triggerCollectionId \in
              getProductCollections(cartProductIds[i], failing)

\* The calls of getProductCollections that the inner loop makes for one
\* rule, in order: one per cart product, from the first on, ending with the
\* product at which the loop breaks.  A PRODUCT rule makes none.
RECURSIVE CollectionLookupsNoBreak(_, _, _)
CollectionLookupsNoBreak(rule, cartProductIds, failing) ==
    IF rule.triggerType # "COLLECTION" \/ cartProductIds = <<>> THEN <<>>
    ELSE <<Head(cartProductIds)>>
         \o CollectionLookupsNoBreak(rule, Tail(cartProductIds), failing)

RECURSIVE CollectionLookups(_, _, _)
CollectionLookups(rule, cartProductIds, failing) ==
    IF rule.triggerType # "COLLECTION" \/ cartProductIds = <<>> THEN <<>>
    ELSE IF rule.triggerCollectionId \in
               getProductCollections(Head(cartProductIds), failing)
    THEN <<Head(cartProductIds)>>
    ELSE <<Head(cartProductIds)>>
         \o CollectionLookups(rule, Tail(cartProductIds), failing)

\* The lookups of the request, rule by rule in the order of the outer loop.
LookupsByRule(found, cartProductIds, failing) ==
    [i \in 1..Len(found) |->
        CollectionLookups(found[i], cartProductIds, failing)]

RECURSIVE MatchRulesCollections(_, _, _)
MatchRulesCollections(found, cartProductIds, failing) ==
    IF found = <<>> THEN <<>>
    ELSE LET rule == Head(found)
             rest == MatchRulesCollections(Tail(found), cartProductIds, failing)
         IN  IF /\ \/ TriggerMatches(rule, cartProductIds)
                   \/ CollectionMatches(rule, cartProductIds, failing)
                /\ ~UpsellInCart(rule, cartProductIds)
             THEN <<rule>> \o rest
             ELSE rest

TriggeredCollections(found, cartProductIds, failing) ==
    {found[i].id : i \in {j \in 1..Len(found) :
        \/ TriggerMatches(found[j], cartProductIds)
        \/ CollectionMatches(found[j], cartProductIds, failing)}}

UpsellsCollectionsRequest(shop, productsParam, fault, failing) ==
    /\ IF ReadsRules(shop, productsParam, fault)
       THEN \E found \in PriorityOrders(StorefrontRules(shop)) :
               LET cart == CartProductIds(productsParam)
               IN  out' = UpsellsOut("upsellsCollections", shop, productsParam,
                                     FALSE, failing, 200, cart, found,
                                     TriggeredCollections(found, cart, failing),
                                     MatchRulesCollections(found, cart, failing),
                                     LookupsByRule(found, cart, failing))
       ELSE out' = UpsellsEarly("upsellsCollections", shop, productsParam, fault)
    /\ UNCHANGED <<shops, rules, nextRuleId, events, tpc, treq, subs>>

(***************************************************************************)
(* billing.ts: the plan table and the plan gate.  Undefined stands for an  *)
(* omitted currentCount.  BILLING_PLANS has no entry for a plan other than *)
(* FREE and PRO, so for such a plan the variable plan is undefined and the *)
(* read of plan.maxRules throws; the comparison is only evaluated when     *)
(* currentCount is given.  The reason is the sequence of the parts of the  *)
(* template string.                                                        *)
(***************************************************************************)
BILLING_PLANS ==
    [FREE |-> [name |-> "Free", maxRules |-> 1],
     PRO  |-> [name |-> "Pro", maxRules |-> 999]]

Undefined == -1

GateOut(currentPlan, currentCount, threw, allowed, reason) ==
    [op |-> "canPerformAction", plan |-> currentPlan, count |-> currentCount,
     threw |-> threw, allowed |-> allowed, reason |-> reason]

canPerformAction(currentPlan, currentCount) ==
    IF currentCount = Undefined
    THEN GateOut(currentPlan, currentCount, FALSE, TRUE, <<>>)
    ELSE IF currentPlan \notin DOMAIN BILLING_PLANS
    THEN GateOut(currentPlan, currentCount, TRUE, FALSE, <<>>)
    ELSE LET plan == BILLING_PLANS[currentPlan]
         IN  IF currentCount >= plan.maxRules
             THEN GateOut(currentPlan, currentCount, FALSE, FALSE,
                          <<"You've reached the maximum of ",
                            ToString(plan.maxRules),
                            " rule(s) on the ", plan.name,
                            " plan. Upgrade to Pro for unlimited rules.">>)
             ELSE GateOut(currentPlan, currentCount, FALSE, TRUE, <<>>)

(***************************************************************************)
(* billing.ts: the plan derived from a subscription.  A subscription is    *)
(* null (<<>>) or a one-element sequence holding [status, lineItems]; a    *)
(* line item is the amount of its recurring price, a decimal string, or    *)
(* null for pricing details that carry no price.  The query of             *)
(* getCurrentSubscription always asks for lineItems, so the list is there. *)
(***************************************************************************)
hasActivePaidSubscription(subscription) ==
    /\ subscription # Null
    /\ subscription[1].status = "ACTIVE"
    /\ \E i \in 1..Len(subscription[1].lineItems) :
          LET price == subscription[1].lineItems[i]
          IN  /\ price # Null
              /\ ~ParseFloat(price).nan
              /\ ParseFloat(price).cents > 0

\* A derivation that looks at the status alone.
getCurrentPlanByStatus(subscription) ==
    IF subscription # Null /\ subscription[1].status = "ACTIVE"
    THEN "PRO" ELSE "FREE"

getCurrentPlan(subscription) ==
    IF hasActivePaidSubscription(subscription) THEN "PRO" ELSE "FREE"

\* A call of getCurrentPlan on its own.
GetCurrentPlanCall(subscription) ==
    /\ out' = [op |-> "getCurrentPlan", subscription |-> subscription,
               plan |-> getCurrentPlan(subscription)]
    /\ UNCHANGED <<shops, rules, nextRuleId, events, tpc, treq, subs>>

(***************************************************************************)
(* The billing provider holds the subscription of each installation;       *)
(* approving a charge created by createBillingSubscription, cancelling     *)
(* with cancelSubscription, and the provider's own expiry change it.  No   *)
(* store row is written by any of them.                                    *)
(***************************************************************************)
ProviderSet(d, subscription) ==
    /\ subs[d] # subscription
    /\ subs' = [subs EXCEPT ![d] = subscription]
    /\ out' = NoOut
    /\ UNCHANGED <<shops, rules, nextRuleId, events, tpc, treq>>

(***************************************************************************)
(* app.billing.callback.tsx loader: the plan derived from the provider's   *)
(* subscription is written to the shop row.  A failing query (fault) or a  *)
(* missing shop row makes the try block throw: redirect with error=callback*)
(* and nothing written.                                                    *)
(***************************************************************************)
BillingCallback(d, fault) ==
    /\ IF fault \/ shops[d] = "none"
       THEN /\ out' = [op |-> "callback", redirect |-> "error"]
            /\ UNCHANGED shops
       ELSE /\ shops' = [shops EXCEPT ![d] = getCurrentPlan(subs[d])]
            /\ out' = [op |-> "callback", redirect |-> "upgraded"]
    /\ UNCHANGED <<rules, nextRuleId, events, tpc, treq, subs>>

(***************************************************************************)
(* The action of the billing page (src/unnamed/part_004).  "upgrade"       *)
(* creates a charge at the provider and redirects to its confirmation      *)
(* page; the subscription only exists once the merchant approves           *)
(* (ProviderSet).  "cancel" with a subscriptionId cancels at the provider  *)
(* and then writes currentPlan FREE to the shop row, whatever rules the    *)
(* shop has.  fault says that the provider call throws (userErrors         *)
(* included); a missing shop row makes the update throw after the          *)
(* provider has cancelled.  Any throw is answered by the catch.            *)
(***************************************************************************)
BillingAction(d, action, subscriptionId, fault) ==
    /\ LET BillingOut(act, success) ==
               [op |-> "billing", action |-> act, success |-> success]
       IN
       IF action = "upgrade"
       THEN /\ out' = BillingOut(action, ~fault)
            /\ UNCHANGED <<shops, subs>>
       ELSE IF action = "cancel" /\ subscriptionId # ""
       THEN IF fault \/ subs[d] = Null
            THEN /\ out' = BillingOut(action, FALSE)
                 /\ UNCHANGED <<shops, subs>>
            ELSE /\ subs' = [subs EXCEPT ![d] = Null]
                 /\ IF shops[d] = "none"
                    THEN /\ out' = BillingOut(action, FALSE)
                         /\ UNCHANGED shops
                    ELSE /\ shops' = [shops EXCEPT ![d] = "FREE"]
                         /\ out' = BillingOut(action, TRUE)
       ELSE /\ out' = BillingOut(action, FALSE)
            /\ UNCHANGED <<shops, subs>>
    /\ UNCHANGED <<rules, nextRuleId, events, tpc, treq>>

(***************************************************************************)
(* app.analytics.tsx loader: the summary of the shop's events, computed    *)
(* from one findMany.  A rate is a fraction in lowest terms and the        *)
(* revenue a count of hundredths: the rounding of the double arithmetic of *)
(* the division, the multiplication and the additions is not modelled.     *)
(* The currency query is left out.                                         *)
(***************************************************************************)
\* A findMany without the shopId of the where clause.
EventsOfAnyShop(shopId) == events

EventsOfShop(shopId) ==
    LET mine == {e \in DOMAIN events : e.shopId = shopId}
    IN  [e \in mine |-> events[e]]

OfType(bag, eventType) ==
    LET m == {e \in DOMAIN bag : e.eventType = eventType}
    IN  [e \in m |-> bag[e]]

RECURSIVE GCD(_, _)
GCD(a, b) == IF b = 0 THEN a ELSE GCD(b, a % b)

Rat(n, d) == [num |-> n \div GCD(n, d), den |-> d \div GCD(n, d)]

\* The share of conversions among all events, as a percentage.
ConversionShare(totalConversions, totalImpressions) ==
    IF totalImpressions > 0
    THEN Rat(totalConversions * 100, totalConversions + totalImpressions)
    ELSE Rat(0, 1)

\* totalImpressions > 0 ? (totalConversions / totalImpressions) * 100 : 0
ConversionRate(totalConversions, totalImpressions) ==
    IF totalImpressions > 0
    THEN LET q == Rat(totalConversions, totalImpressions)
         IN  Rat(q.num * 100, q.den)
    ELSE Rat(0, 1)

\* Number(event.productPrice || 0)
PriceNumber(productPrice) ==
    IF productPrice = Null THEN Num(0) ELSE productPrice[1]

Plus(a, b) == IF a.nan \/ b.nan THEN NaN ELSE Num(a.cents + b.cents)

\* conversionEvents.reduce((sum, event) => sum + Number(...), 0)
RECURSIVE Revenue(_)
Revenue(bag) ==
    IF DOMAIN bag = {} THEN Num(0)
    ELSE LET e == CHOOSE e \in DOMAIN bag : TRUE
         IN  Plus(Revenue(bag (-) SetToBag({e})), PriceNumber(e.productPrice))

Summary(found) ==
    [totalImpressions |-> BagCardinality(OfType(found, "IMPRESSION")),
     totalConversions |-> BagCardinality(OfType(found, "CONVERSION")),
     conversionRate   |-> ConversionRate(BagCardinality(OfType(found, "CONVERSION")),
                                         BagCardinality(OfType(found, "IMPRESSION"))),
     totalRevenue     |-> Revenue(OfType(found, "CONVERSION"))]

AnalyticsLoader(d) ==
    /\ out' = [op |-> "analytics", shop |-> d,
               summary |-> IF shops[d] = "none" THEN Summary(EmptyBag)
                           ELSE Summary(EventsOfShop(d))]
    /\ UNCHANGED <<shops, rules, nextRuleId, events, tpc, treq, subs>>

(***************************************************************************)
(* The same loader with its store reads as separate steps, for the         *)
(* per-rule rollup: the findMany of the events, then one rule.findUnique   *)
(* per ruleId of the events read, in any order (Promise.all), then the     *)
(* return.  The handler holds the events read, the ruleIds still to look   *)
(* up and the entries built so far; a ruleId without rule row gives no     *)
(* entry.  The entries are a set: their ruleIds are distinct.  ruleName is *)
(* a copy of a field the model does not keep.                              *)
(***************************************************************************)
OfRule(bag, ruleId) ==
    LET m == {e \in DOMAIN bag : e.ruleId = ruleId}
    IN  [e \in m |-> bag[e]]

\* An entry computed from all events read.
RuleEntryUnscoped(found, rule) ==
    [ruleId         |-> rule.id,
     impressions    |-> Summary(found).totalImpressions,
     conversions    |-> Summary(found).totalConversions,
     conversionRate |-> Summary(found).conversionRate,
     revenue        |-> Summary(found).totalRevenue,
     isEnabled      |-> rule.isEnabled]

RuleEntry(found, rule) ==
    [ruleId         |-> rule.id,
     impressions    |-> Summary(OfRule(found, rule.id)).totalImpressions,
     conversions    |-> Summary(OfRule(found, rule.id)).totalConversions,
     conversionRate |-> Summary(OfRule(found, rule.id)).conversionRate,
     revenue        |-> Summary(OfRule(found, rule.id)).totalRevenue,
     isEnabled      |-> rule.isEnabled]

AnalyticsOut(d, found, rulePerformance) ==
    [op |-> "analytics", shop |-> d, summary |-> Summary(found),
     rulePerformance |-> rulePerformance]

AnalyticsFind(p, d) ==
    /\ tpc[p] = "idle"
    /\ IF shops[d] = "none"
       THEN /\ out' = AnalyticsOut(d, EmptyBag, {})
            /\ UNCHANGED <<tpc, treq>>
       ELSE /\ out' = NoOut
            /\ tpc' = [tpc EXCEPT ![p] = "lookup"]
            /\ treq' = [treq EXCEPT ![p] =
                          [method          |-> "analytics",
                           shop            |-> d,
                           found           |-> EventsOfShop(d),
                           pending         |-> {e.ruleId : e \in DOMAIN EventsOfShop(d)},
                           rulePerformance |-> {}]]
    /\ UNCHANGED <<shops, rules, nextRuleId, events, subs>>

AnalyticsLookup(p) ==
    /\ tpc[p] = "lookup"
    /\ \E ruleId \in treq[p].pending :
          treq' = [treq EXCEPT
                     ![p].pending = @ \ {ruleId},
                     ![p].rulePerformance =
                         @ \cup {RuleEntry(treq[p].found, rule) : rule \in RuleById(ruleId)}]
    /\ out' = NoOut
    /\ UNCHANGED <<shops, rules, nextRuleId, events, tpc, subs>>

AnalyticsReturn(p) ==
    /\ tpc[p] = "lookup"
    /\ treq[p].pending = {}
    /\ out' = AnalyticsOut(treq[p].shop, treq[p].found, treq[p].rulePerformance)
    /\ tpc' = [tpc EXCEPT ![p] = "idle"]
    /\ treq' = [treq EXCEPT ![p] = NoReq]
    /\ UNCHANGED <<shops, rules, nextRuleId, events, subs>>

(***************************************************************************)
(* The track specifications.  SpecTrackSeq runs one handler, so a request  *)
(* starts only after the one before it has returned; SpecTrackRace runs    *)
(* two handlers whose store calls interleave freely.  In both, the admin   *)
(* creates and deletes rules while requests are in flight.                 *)
(***************************************************************************)
G1 == <<Gid, "1">>
G2 == <<Gid, "2">>

TrackForms ==
    {[name |-> <<"n">>, triggerType |-> "PRODUCT", triggerProductId |-> G1,
      triggerCollectionId |-> Null, upsellProductId |-> G2, isEnabled |-> FALSE]}

TrackInit ==
    /\ shops = [d \in Domains |-> "FREE"]
    /\ rules = {}
    /\ nextRuleId = 0
    /\ events = EmptyBag
    /\ tpc = [p \in Procs |-> "idle"]
    /\ treq = [p \in Procs |-> NoReq]
    /\ out = NoOut
    /\ subs = [d \in Domains |-> Null]

Sessions == {"s1", "s2"}

SeqBodies ==
    [method : {"POST"}, eventType : {"IMPRESSION"}, ruleId : 1..MaxRuleIds,
     shopDomain : Domains, sessionId : Sessions \cup {""},
     productPrice : {Null}]
    \cup
    [method : {"POST"}, eventType : {"CONVERSION"}, ruleId : 1..MaxRuleIds,
     shopDomain : Domains, sessionId : {"s1"}, productPrice : {Null}]

RaceBodies ==
    [method : {"POST"}, eventType : EventTypes, ruleId : {1},
     shopDomain : {ShopA}, sessionId : Sessions, productPrice : {Null}]

TrackAdmin ==
    \/ \E d \in Domains, form \in TrackForms : CreateRule(d, form, "product")
    \/ \E id \in 1..MaxRuleIds : DeleteRule(ShopA, id)

TrackSteps(p) ==
    \/ TrackFindShop(p)
    \/ TrackFindRule(p)
    \/ TrackDedup(p)
    \/ TrackCreate(p)

TrackSeqNext ==
    \/ TrackAdmin
    \/ \E body \in SeqBodies : TrackBegin("p1", body)
    \/ TrackSteps("p1")

SpecTrackSeq == TrackInit /\ [][TrackSeqNext]_vars

TrackRaceNext ==
    \/ TrackAdmin
    \/ \E p \in Procs, body \in RaceBodies : TrackBegin(p, body)
    \/ \E p \in Procs : TrackSteps(p)

SpecTrackRace == TrackInit /\ [][TrackRaceNext]_vars

(***************************************************************************)
(* Claims about the track action.                                          *)
(***************************************************************************)
\* The number of IMPRESSION rows of a rule and session.
ImpressionRows(ruleId, sessionId) ==
    LET m == {e \in DOMAIN events : /\ e.ruleId = ruleId
                                    /\ e.eventType = "IMPRESSION"
                                    /\ e.sessionId = sessionId}
    IN  BagCardinality([e \in m |-> events[e]])

AtMostOneImpression ==
    \A e \in DOMAIN events :
        (e.eventType = "IMPRESSION" /\ e.sessionId # "")
            => ImpressionRows(e.ruleId, e.sessionId) <= 1

\* A step that answers an IMPRESSION request with a present sessionId with
\* success: tracked=true and one more row when the pair had no IMPRESSION
\* row, tracked=false with reason "duplicate" and no write when it had one.
DedupStep ==
    (/\ out'.op = "track"
     /\ out'.status = 200
     /\ out'.req.eventType = "IMPRESSION"
     /\ out'.req.sessionId # "")
    => IF ImpressionRows(out'.req.ruleId, out'.req.sessionId) = 0
       THEN /\ out'.tracked
            /\ events' = AddEvent(EventRow(out'.req))
       ELSE /\ ~out'.tracked
            /\ out'.reason = "duplicate"
            /\ events' = events

\* C1: with track requests handled one at a time, the first IMPRESSION of a
\* (ruleId, sessionId) pair with a present sessionId is tracked and appends
\* one row, every later one is answered duplicate and appends nothing,
\* whatever was recorded in between, and a different session of the same rule
\* is tracked; so no pair ever has two IMPRESSION rows.
C1_ImpressionDedup == [](AtMostOneImpression) /\ [][DedupStep]_vars

\* A duplicate answer after the store has filled with other events, among
\* them an IMPRESSION of the same rule for another session.
C1_Witness ==
    /\ out.op = "track"
    /\ out.status = 200
    /\ out.reason = "duplicate"
    /\ NumEvents >= 3
    /\ \E e \in DOMAIN events : /\ e.ruleId = out.req.ruleId
                                /\ e.eventType = "IMPRESSION"
                                /\ e.sessionId \notin {"", out.req.sessionId}
    /\ \E e \in DOMAIN events : e.eventType = "CONVERSION"

\* C2: a handler that has passed the existing-impression lookup inserts its
\* row and answers tracked=true whatever rows exist by then: when two
\* requests of one pair both look up before either inserts, both are tracked
\* and the pair ends with two IMPRESSION rows.
C2_InsertAfterLookup ==
    [][\A p \in Procs :
         (/\ tpc[p] = "create"
          /\ tpc'[p] = "idle"
          /\ RuleById(treq[p].ruleId) # {})
         => /\ out'.tracked
            /\ out'.status = 200
            /\ events' = AddEvent(EventRow(treq[p]))]_vars

\* Two IMPRESSION rows of one (ruleId, sessionId), the second just tracked.
C2_Witness ==
    /\ out.op = "track"
    /\ out.tracked
    /\ out.req.eventType = "IMPRESSION"
    /\ out.req.sessionId # ""
    /\ ImpressionRows(out.req.ruleId, out.req.sessionId) = 2

EventsUnderOwnTenant ==
    \A e \in DOMAIN events :
        \E r \in rules : r.id = e.ruleId /\ r.shopId = e.shopId

\* The rule lookup of a request whose rule is missing or of another shop
\* answers 404 and writes nothing.
CrossTenantStep ==
    \A p \in Procs :
        (/\ tpc[p] = "findRule"
         /\ tpc'[p] # "findRule"
         /\ ~\E r \in rules : r.id = treq[p].ruleId /\ r.shopId = treq[p].shopDomain)
        => /\ out'.op = "track"
           /\ out'.status = 404
           /\ events' = events

\* C3: a track request whose rule does not exist or belongs to another shop
\* is answered 404 and writes no event; every event's shopId is the shopId of
\* the rule it references.
C3_NoCrossTenantEvent == [](EventsUnderOwnTenant) /\ [][CrossTenantStep]_vars

\* A 404 for a rule that exists under the other shop, with events recorded.
C3_Witness ==
    /\ out.op = "track"
    /\ out.status = 404
    /\ out.reason = "rule"
    /\ \E r \in rules : r.id = out.req.ruleId /\ r.shopId # out.req.shopDomain
    /\ NumEvents > 0

(***************************************************************************)
(* The matching specification: the two loaders as functions of the rule    *)
(* table and the request.  The table holds up to MaxMatchRules rows of a   *)
(* shop on the PRO plan, each the row the create action writes for a valid *)
(* form, with well-formed and malformed product identifiers; a behaviour   *)
(* is one request against one table.  ShopB has no shop row here: it is    *)
(* the unknown shop.                                                       *)
(***************************************************************************)
MaxMatchRules == 2

G12 == <<Gid, "1", "2">>

MatchTriggers == {G1, G12, <<"1">>, <<Gid, "1", "x">>, <<Gid, "x">>}

MatchUpsells == {G2, G12, <<"2">>}

MatchForms ==
    {f \in [name : {<<"n">>}, triggerType : {"PRODUCT"},
            triggerProductId : MatchTriggers, triggerCollectionId : {Null},
            upsellProductId : MatchUpsells, isEnabled : {TRUE}] :
        f.triggerProductId # f.upsellProductId}
    \cup
    [name : {<<"n">>}, triggerType : {"COLLECTION"},
     triggerProductId : {Null}, triggerCollectionId : {Col1, Col2},
     upsellProductId : {G2, G12}, isEnabled : {TRUE}]

MatchParams ==
    {<<>>,
     << <<" ">> >>,
     << <<"1">> >>,
     << <<"2">> >>,
     << <<" ", "1", " ">>, <<"2">> >>,
     << <<"1", "2">> >>,
     << <<"1">>, <<"1", "2">> >>,
     << G1 >>,
     << <<"3">> >>,
     << <<"1">>, <<"2">>, <<"3">> >>}

MatchInit ==
    /\ shops = [d \in Domains |-> IF d = ShopA THEN "PRO" ELSE "none"]
    /\ \E n \in 0..MaxMatchRules :
          \E table \in [1..n -> MatchForms] :
             /\ \A i \in 1..n : FormErrors(table[i]) = {}
             /\ rules = {NewRule(i, ShopA, table[i], "product") : i \in 1..n}
             /\ nextRuleId = n
    /\ events = EmptyBag
    /\ tpc = [p \in Procs |-> "idle"]
    /\ treq = [p \in Procs |-> NoReq]
    /\ out = NoOut
    /\ subs = [d \in Domains |-> Null]

MatchNext ==
    /\ out = NoOut
    /\ \/ \E shop \in Domains \cup {""}, productsParam \in MatchParams,
             fault \in BOOLEAN :
             UpsellsRequest(shop, productsParam, fault)
       \/ \E shop \in Domains \cup {""}, productsParam \in MatchParams,
             fault \in BOOLEAN, failing \in {{}, {<<"1">>}} :
             UpsellsCollectionsRequest(shop, productsParam, fault, failing)

SpecMatch == MatchInit /\ [][MatchNext]_vars

(***************************************************************************)
(* The offers specification: the storefront loader over rule tables of up  *)
(* to MaxOfferRules rows whose priority column holds several values.  The  *)
(* column is an INTEGER the loader sorts on; the handlers leave it at its  *)
(* default, so these tables are rows as the schema admits them.  A         *)
(* behaviour is one request against one table.                             *)
(***************************************************************************)
MaxOfferRules == 4

G3 == <<Gid, "3">>

OfferShapes ==
    {s \in [priority : 0..2, isEnabled : BOOLEAN, shopId : Domains,
            triggerProductId : {G1, G2}] :
        (~s.isEnabled \/ s.shopId = ShopB)
            => /\ s.priority = 0
               /\ s.triggerProductId = G1
               /\ (s.isEnabled \/ s.shopId = ShopA)}

OfferRule(id, s) ==
    [id                  |-> id,
     shopId              |-> s.shopId,
     isEnabled           |-> s.isEnabled,
     triggerType         |-> "PRODUCT",
     triggerProductId    |-> s.triggerProductId,
     triggerCollectionId |-> Null,
     upsellProductId     |-> G3,
     upsellProductData   |-> Snapshot(G3, "product"),
     priority            |-> s.priority]

OfferParams == {<< <<"1">> >>, << <<"1">>, <<"2">> >>}

OffersInit ==
    /\ shops = [d \in Domains |-> "PRO"]
    /\ \E n \in 0..MaxOfferRules :
          \E table \in [1..n -> OfferShapes] :
             /\ rules = {OfferRule(i, table[i]) : i \in 1..n}
             /\ nextRuleId = n
    /\ events = EmptyBag
    /\ tpc = [p \in Procs |-> "idle"]
    /\ treq = [p \in Procs |-> NoReq]
    /\ out = NoOut
    /\ subs = [d \in Domains |-> Null]

OffersNext ==
    /\ out = NoOut
    /\ \E shop \in Domains, productsParam \in OfferParams, fault \in BOOLEAN :
          UpsellsRequest(shop, productsParam, fault)

SpecOffers == OffersInit /\ [][OffersNext]_vars

(***************************************************************************)
(* The store specification: shops install, their admins create, edit,      *)
(* toggle and delete rules, and the storefront asks for offers in between. *)
(***************************************************************************)
StoreForms ==
    [name : {<<"n">>}, triggerType : {"PRODUCT"}, triggerProductId : {G1},
     triggerCollectionId : {Null}, upsellProductId : {G2, G3},
     isEnabled : BOOLEAN]

StoreParams == {<< <<"1">> >>, << <<"1">>, <<"2">> >>}

StoreInit ==
    /\ shops = [d \in Domains |-> "none"]
    /\ rules = {}
    /\ nextRuleId = 0
    /\ events = EmptyBag
    /\ tpc = [p \in Procs |-> "idle"]
    /\ treq = [p \in Procs |-> NoReq]
    /\ out = NoOut
    /\ subs = [d \in Domains |-> Null]

StoreNext ==
    \/ \E d \in Domains : InstallShop(d)
    \/ \E d \in Domains, form \in StoreForms, lookup \in {"product", "none"} :
          CreateRule(d, form, lookup)
    \/ \E d \in Domains, id \in 1..MaxRuleIds, form \in StoreForms :
          EditRule(d, id, form, "product")
    \/ \E d \in Domains, id \in 1..MaxRuleIds, isEnabled \in BOOLEAN :
          ToggleRule(d, id, isEnabled)
    \/ \E d \in Domains, id \in 1..MaxRuleIds : DeleteRule(d, id)
    \/ \E shop \in Domains, productsParam \in StoreParams, fault \in BOOLEAN :
          UpsellsRequest(shop, productsParam, fault)

SpecStore == StoreInit /\ [][StoreNext]_vars

(***************************************************************************)
(* The gate specification: canPerformAction called with every plan of the  *)
(* Plan enum and with counts below, at and above the limits.               *)
(***************************************************************************)
MaxGateCount == 32

Plans == {"FREE", "STARTER", "PRO"}

GateCounts ==
    {Undefined} \cup (0..MaxGateCount)
    \cup {BILLING_PLANS.PRO.maxRules + k : k \in {-1, 0, 1}}

CanPerformActionCall(currentPlan, currentCount) ==
    /\ out' = canPerformAction(currentPlan, currentCount)
    /\ UNCHANGED <<shops, rules, nextRuleId, events, tpc, treq, subs>>

GateNext ==
    \E currentPlan \in Plans, currentCount \in GateCounts :
        CanPerformActionCall(currentPlan, currentCount)

GateInit ==
    /\ shops = [d \in Domains |-> "none"]
    /\ rules = {}
    /\ nextRuleId = 0
    /\ events = EmptyBag
    /\ tpc = [p \in Procs |-> "idle"]
    /\ treq = [p \in Procs |-> NoReq]
    /\ out = NoOut
    /\ subs = [d \in Domains |-> Null]

SpecGate == GateInit /\ [][GateNext]_vars

(***************************************************************************)
(* The storefront claims.                                                  *)
(***************************************************************************)
\* The bare id of an identifier, said without the loader's scan: the digits
\* that follow the first occurrence of the resource prefix that a digit
\* follows.  The set is empty for an identifier with no such occurrence and
\* has one element otherwise.
StartsIdAt(ref, i) == i < Len(ref) /\ ref[i] = Gid /\ ref[i + 1] \in Digits

BareIds(ref) ==
    {SubSeq(ref, p[1] + 1, p[2]) :
        p \in {q \in (1..Len(ref)) \X (1..Len(ref)) :
                  /\ StartsIdAt(ref, q[1])
                  /\ \A k \in 1..(q[1] - 1) : ~StartsIdAt(ref, k)
                  /\ q[2] > q[1]
                  /\ \A k \in (q[1] + 1)..q[2] : ref[k] \in Digits
                  /\ (q[2] = Len(ref) \/ ref[q[2] + 1] \notin Digits)}}

CartSet(o) == {o.cart[i] : i \in 1..Len(o.cart)}

OfferedIds(o) == {o.offers[i].ruleId : i \in 1..Len(o.offers)}

InCart(ref, o) == BareIds(ref) \cap CartSet(o) # {}

\* The response of a request that got as far as reading the rules.
Answered(op) ==
    /\ out.op = op
    /\ ~out.fault
    /\ out.shop \in DOMAIN shops
    /\ shops[out.shop] # "none"
    /\ out.cart # <<>>

LiveRules(shopId) == {r \in rules : r.shopId = shopId /\ r.isEnabled}

\* C4: a rule whose upsell product's bare id is one of the cart product ids
\* of a /upsells request has no offer in the response, whether or not its
\* trigger matches.
C4_UpsellInCartExcluded ==
    out.op \in {"upsells", "upsellsCollections"}
    => \A r \in rules :
          InCart(r.upsellProductId, out) => r.id \notin OfferedIds(out)

\* A response that offers one rule and leaves out another whose trigger
\* matched and whose upsell is in the cart.
C4_Witness ==
    /\ out.op = "upsells"
    /\ out.offers # <<>>
    /\ \E r \in rules : /\ r.id \in out.triggered
                        /\ InCart(r.upsellProductId, out)
                        /\ r.id \notin OfferedIds(out)

\* C5: the loader sets the matches flag of an enabled PRODUCT rule of the
\* shop if and only if the bare id of its trigger product is among the cart
\* product ids; a trigger identifier with no bare id is a non-match, and
\* the response is never an error response because of it.
C5_ProductMatch ==
    Answered("upsells")
    => /\ out.status = 200
       /\ \A r \in LiveRules(out.shop) :
             r.triggerType = "PRODUCT"
             => (r.id \in out.triggered <=> InCart(r.triggerProductId, out))

\* A 200 response in which a rule whose stored trigger identifier has no
\* bare id, and is itself a cart id, did not match while another rule did.
C5_Witness ==
    /\ Answered("upsells")
    /\ out.status = 200
    /\ out.triggered # {}
    /\ \E r \in LiveRules(out.shop) :
          /\ r.triggerType = "PRODUCT"
          /\ BareIds(r.triggerProductId) = {}
          /\ r.triggerProductId \in CartSet(out)
          /\ r.id \notin out.triggered

InTriggerCollection(r, o) ==
    \E i \in 1..Len(o.cart) : r.triggerCollectionId \in Catalog(o.cart[i])

\* C6: the storefront loader matches an enabled COLLECTION rule of the shop
\* if and only if some cart product belongs to the rule's trigger
\* collection, and such a rule whose upsell is not in the cart is offered.
C6_CollectionMatch ==
    Answered("upsells")
    => \A r \in LiveRules(out.shop) :
          r.triggerType = "COLLECTION"
          => /\ r.id \in out.triggered <=> InTriggerCollection(r, out)
             /\ (/\ InTriggerCollection(r, out)
                 /\ ~InCart(r.upsellProductId, out)
                 /\ Cardinality(rules) <= 3)
                => r.id \in OfferedIds(out)

\* The same statement for the loader with collection support, when no
\* collection lookup fails.
CollectionMatchWithLookup ==
    (Answered("upsellsCollections") /\ out.failing = {})
    => \A r \in LiveRules(out.shop) :
          r.triggerType = "COLLECTION"
          => /\ r.id \in out.triggered <=> InTriggerCollection(r, out)
             /\ (/\ InTriggerCollection(r, out)
                 /\ ~InCart(r.upsellProductId, out)
                 /\ Cardinality(rules) <= 3)
                => r.id \in OfferedIds(out)

PriorityOf(id) == (CHOOSE r \in rules : r.id = id).priority

RECURSIVE IsSubseq(_, _)
IsSubseq(a, b) ==
    IF a = <<>> THEN TRUE
    ELSE IF b = <<>> THEN FALSE
    ELSE IF Head(a) = Head(b) THEN IsSubseq(Tail(a), Tail(b))
    ELSE IsSubseq(a, Tail(b))

\* C7: the offers are in ascending rule priority, and the offer list is a
\* subsequence of the shop's enabled rules taken in priority order.
C7_PriorityOrder ==
    Answered("upsells")
    => /\ \A i, j \in 1..Len(out.offers) :
             i < j => PriorityOf(out.offers[i].ruleId)
                          <= PriorityOf(out.offers[j].ruleId)
       /\ {out.found[i] : i \in 1..Len(out.found)} = LiveRules(out.shop)
       /\ Len(out.found) = Cardinality(LiveRules(out.shop))
       /\ \A i, j \in 1..Len(out.found) :
             i < j => out.found[i].priority <= out.found[j].priority
       /\ IsSubseq([i \in 1..Len(out.offers) |-> out.offers[i].ruleId],
                   [i \in 1..Len(out.found) |-> out.found[i].id])

\* Rules created with priorities 2, 0, 1, all matching: the offers are the
\* rule of priority 0, then 1, then 2.
C7_Witness ==
    /\ Answered("upsells")
    /\ Len(out.offers) = 3
    /\ [i \in 1..3 |-> out.offers[i].ruleId] = <<2, 3, 1>>
    /\ [i \in 1..3 |-> PriorityOf(i)] = <<2, 0, 1>>

\* C8: of n matched rules the response holds exactly min(n, 3) offers, the
\* offers of the first min(n, 3) matched rules in match order.
C8_FirstThree ==
    Answered("upsells")
    => LET n == Len(out.matched)
           k == IF n < 3 THEN n ELSE 3
       IN  /\ Len(out.offers) = k
           /\ \A i \in 1..k :
                 /\ out.offers[i].ruleId = out.matched[i].id
                 /\ out.offers[i].product.id = out.matched[i].upsellProductId

\* Four matched rules, three offers.
C8_Witness ==
    /\ Answered("upsells")
    /\ Len(out.matched) = 4
    /\ Len(out.offers) = 3
    /\ out.matched[4].id \notin OfferedIds(out)

\* C9: every offer of a response for shop S comes from a rule that exists
\* in the store, has shopId S and is enabled: a rule that was disabled or
\* deleted, or a rule of another shop, is not offered.
C9_OffersFromLiveRules ==
    out.op = "upsells"
    => \A i \in 1..Len(out.offers) :
          \E r \in rules : /\ r.id = out.offers[i].ruleId
                           /\ r.shopId = out.shop
                           /\ r.isEnabled

\* A response with an offer while a disabled rule of the same shop, whose
\* trigger is in the cart and whose upsell is not, is left out.
C9_Witness ==
    /\ out.op = "upsells"
    /\ out.offers # <<>>
    /\ \E r \in rules : /\ r.shopId = out.shop
                        /\ ~r.isEnabled
                        /\ InCart(r.triggerProductId, out)
                        /\ ~InCart(r.upsellProductId, out)
                        /\ r.id \notin OfferedIds(out)

(***************************************************************************)
(* The plan gate claim.                                                    *)
(***************************************************************************)
Names(reason, word) == \E i \in 1..Len(reason) : reason[i] = word

\* C10: canPerformAction(plan, "createRule", count) answers allowed=false
\* if and only if count >= maxRules of the plan, with a reason naming the
\* plan and its limit: FREE with count 1 is refused with a reason naming
\* "Free" and "1"; STARTER and PRO with count 1 are allowed.
C10_PlanGate ==
    out.op = "canPerformAction"
    => /\ out.plan \in DOMAIN BILLING_PLANS
          => /\ ~out.threw
             /\ ~out.allowed <=> /\ out.count # Undefined
                                 /\ out.count >= BILLING_PLANS[out.plan].maxRules
             /\ ~out.allowed
                => /\ Names(out.reason, BILLING_PLANS[out.plan].name)
                   /\ Names(out.reason,
                            ToString(BILLING_PLANS[out.plan].maxRules))
       /\ (out.plan = "FREE" /\ out.count = 1)
          => /\ ~out.threw
             /\ ~out.allowed
             /\ Names(out.reason, "Free")
             /\ Names(out.reason, "1")
       /\ (out.plan \in {"STARTER", "PRO"} /\ out.count = 1)
          => /\ ~out.threw
             /\ out.allowed

\* The statement for the plans of BILLING_PLANS alone.
PlanGateOfListedPlans ==
    (out.op = "canPerformAction" /\ out.plan \in DOMAIN BILLING_PLANS)
    => C10_PlanGate

(***************************************************************************)
(* The plan specification: getCurrentPlan applied once to a subscription   *)
(* of any status with up to MaxLineItems line items.                       *)
(***************************************************************************)
MaxLineItems == 2

SubStatuses == {"ACTIVE", "CANCELLED", "FROZEN"}

Amounts ==
    {Null, <<"0">>, <<"0", ".", "0">>, <<"0", ".", "0", "0">>,
     <<"9", ".", "9", "9">>, <<"1", "0">>, <<"0", ".", "5">>}

LineItemLists == UNION {[1..n -> Amounts] : n \in 0..MaxLineItems}

Subscriptions ==
    {Null} \cup {<<sub>> : sub \in [status : SubStatuses,
                                     lineItems : LineItemLists]}

PlanNext ==
    /\ out = NoOut
    /\ \E subscription \in Subscriptions : GetCurrentPlanCall(subscription)

SpecPlan == GateInit /\ [][PlanNext]_vars

\* The amounts that are positive numbers, listed.
PositiveAmounts == {<<"9", ".", "9", "9">>, <<"1", "0">>, <<"0", ".", "5">>}

\* C11: getCurrentPlan answers PRO if and only if the subscription's status
\* is ACTIVE and at least one of its line items has a recurring price that
\* is a positive number; a null subscription, another status, no line items
\* or only zero or absent prices give FREE.
C11_PlanFromSubscription ==
    out.op = "getCurrentPlan"
    => /\ out.plan \in {"PRO", "FREE"}
       /\ out.plan = "PRO"
          <=> /\ out.subscription # Null
              /\ out.subscription[1].status = "ACTIVE"
              /\ \E i \in 1..Len(out.subscription[1].lineItems) :
                    out.subscription[1].lineItems[i] \in PositiveAmounts

\* An ACTIVE subscription whose first line item has no price and whose
\* second has a positive one: PRO.
C11_Witness ==
    /\ out.op = "getCurrentPlan"
    /\ out.plan = "PRO"
    /\ out.subscription[1].lineItems[1] = Null
    /\ out.subscription[1].lineItems[2] \in PositiveAmounts

(***************************************************************************)
(* The billing specification: the provider's subscription changes, the     *)
(* billing callback runs, and rules are created, in any order.             *)
(***************************************************************************)
BillingSubs ==
    {Null,
     <<[status |-> "ACTIVE", lineItems |-> << <<"9", ".", "9", "9">> >>]>>,
     <<[status |-> "CANCELLED", lineItems |-> << <<"9", ".", "9", "9">> >>]>>}

BillingForms ==
    [name : {<<"n">>}, triggerType : {"PRODUCT"}, triggerProductId : {G1},
     triggerCollectionId : {Null}, upsellProductId : {G2},
     isEnabled : BOOLEAN]

BillingNext ==
    \/ \E d \in Domains : InstallShop(d)
    \/ \E d \in Domains, subscription \in BillingSubs :
          ProviderSet(d, subscription)
    \/ \E d \in Domains, fault \in BOOLEAN : BillingCallback(d, fault)
    \/ \E d \in Domains, form \in BillingForms : CreateRule(d, form, "product")

SpecBilling == StoreInit /\ [][BillingNext]_vars

\* C12: the plan limit of rule creation is checked against the plan derived
\* from the provider's subscription at that moment: while that plan is FREE
\* and the shop has an enabled rule, no step adds another enabled rule of
\* the shop, whatever the shop row's stored plan says.
C12_LivePlanLimit ==
    [][\A d \in Domains :
          (getCurrentPlan(subs[d]) = "FREE"
              /\ Cardinality(EnabledRulesOf(d)) >= 1)
          => ~\E r \in rules' \ rules : r.shopId = d /\ r.isEnabled]_vars

\* A CONVERSION request never takes the existing-impression lookup: with its
\* rule found it goes to the insert, and the insert, the rule row still
\* there, answers tracked=true and adds one CONVERSION row of the request's
\* rule and shop, every row of before kept.
ConversionStep ==
    \A p \in Procs :
        (tpc[p] # "idle" /\ treq[p].eventType = "CONVERSION")
        => /\ tpc'[p] # "dedup"
           /\ (/\ tpc[p] = "findRule"
               /\ tpc'[p] # "findRule"
               /\ \E r \in rules : /\ r.id = treq[p].ruleId
                                   /\ r.shopId = treq[p].shopDomain)
              => tpc'[p] = "create"
           /\ (/\ tpc[p] = "create"
               /\ tpc'[p] = "idle"
               /\ RuleById(treq[p].ruleId) # {})
              => /\ out'.status = 200
                 /\ out'.tracked
                 /\ BagCardinality(events') = BagCardinality(events) + 1
                 /\ \A e \in DOMAIN events :
                       CopiesIn(e, events') >= CopiesIn(e, events)
                 /\ \E e \in DOMAIN events' :
                       /\ e.eventType = "CONVERSION"
                       /\ e.ruleId = treq[p].ruleId
                       /\ e.shopId = treq[p].shopDomain
                       /\ CopiesIn(e, events') = CopiesIn(e, events) + 1

\* C13: conversions are never de-duplicated: every CONVERSION track request
\* with a known shop and a rule of that shop appends exactly one CONVERSION
\* row and answers tracked=true, whatever events exist for the same rule
\* and sessionId, earlier CONVERSION rows with the same fields included.
C13_ConversionsNotDeduplicated == [][ConversionStep]_vars

\* A CONVERSION just tracked whose row the store now holds twice, next to an
\* IMPRESSION of the same rule and session.
C13_Witness ==
    /\ out.op = "track"
    /\ out.tracked
    /\ out.req.eventType = "CONVERSION"
    /\ CopiesIn(EventRow(out.req), events) = 2
    /\ \E e \in DOMAIN events : /\ e.eventType = "IMPRESSION"
                                /\ e.ruleId = out.req.ruleId
                                /\ e.sessionId = out.req.sessionId

(***************************************************************************)
(* The track specification with rejected requests: any method, absent      *)
(* fields, an eventType outside the two, and a domain with no shop row.    *)
(***************************************************************************)
UnknownShop == "x.myshopify.com"

ErrBodies ==
    [method : {"POST"}, eventType : EventTypes \cup {"", "CLICK"},
     ruleId : 0..MaxRuleIds, shopDomain : {"", ShopA, UnknownShop},
     sessionId : {"s1"}, productPrice : {Null}]
    \cup
    [method : {"GET"}, eventType : {"CONVERSION"}, ruleId : {1},
     shopDomain : {ShopA}, sessionId : {"s1"}, productPrice : {Null}]

TrackErrNext ==
    \/ TrackAdmin
    \/ \E body \in ErrBodies : TrackBegin("p1", body)
    \/ TrackSteps("p1")

SpecTrackErr == TrackInit /\ [][TrackErrNext]_vars

\* The status of an answer, from the request and the store: 405 for a
\* method other than POST, 400 for an absent field or an eventType outside
\* the two, 404 for a domain without shop row and for a rule lookup that
\* finds no rule of the shop; an answer 400, 404 or 405 leaves the events
\* as they were.
RejectedStep ==
    out'.op = "track"
    => LET req == out'.req
           present == req.eventType # "" /\ req.ruleId # 0 /\ req.shopDomain # ""
           valid == req.eventType \in {"IMPRESSION", "CONVERSION"}
           known == req.shopDomain \in Domains /\ shops[req.shopDomain] # "none"
       IN  /\ req.method # "POST" => out'.status = 405
           /\ (req.method = "POST" /\ ~present) => out'.status = 400
           /\ (req.method = "POST" /\ present /\ ~valid) => out'.status = 400
           /\ (req.method = "POST" /\ present /\ valid /\ ~known)
              => out'.status = 404
           /\ (/\ req.method = "POST" /\ present /\ valid /\ known
               /\ tpc[out'.proc] = "findRule"
               /\ ~\E r \in rules : /\ r.id = req.ruleId
                                    /\ r.shopId = req.shopDomain)
              => out'.status = 404
           /\ out'.status \in {400, 404, 405}
              => /\ events' = events
                 /\ ~out'.tracked

\* C14: a track request without eventType, ruleId or shopDomain, or with an
\* eventType that is not IMPRESSION or CONVERSION, is answered 400; one
\* whose shop is unknown or whose rule is not found for that shop is
\* answered 404; in these cases and for a non-POST request (405) the event
\* store is left unchanged.
C14_RejectedRequests == [][RejectedStep]_vars

\* A 400 for an eventType outside the two, with events in the store.
C14_Witness ==
    /\ out.op = "track"
    /\ out.status = 400
    /\ out.req.eventType = "CLICK"
    /\ out.req.ruleId # 0
    /\ out.req.shopDomain \in Domains
    /\ NumEvents >= 1

(***************************************************************************)
(* The rules specification: one installed shop creates, edits and deletes  *)
(* rules with forms of every shape: absent fields, a trigger type outside  *)
(* the enum, both trigger ids submitted, trigger equal to upsell; the      *)
(* product lookup finds the product, finds nothing, or fails.  At most     *)
(* MaxLiveRules rules exist at a time.                                     *)
(***************************************************************************)
MaxLiveRules == 1

RuleForm(triggerType, triggerProductId, triggerCollectionId, upsellProductId) ==
    [name |-> <<"n">>, triggerType |-> triggerType,
     triggerProductId |-> triggerProductId,
     triggerCollectionId |-> triggerCollectionId,
     upsellProductId |-> upsellProductId, isEnabled |-> TRUE]

RuleForms ==
    {RuleForm("PRODUCT", G1, Null, G2), RuleForm("PRODUCT", G1, Null, G3),
     RuleForm("PRODUCT", G1, Col1, G2), RuleForm("PRODUCT", G1, Null, G1),
     RuleForm("PRODUCT", Null, Col1, G2), RuleForm("PRODUCT", G1, Null, Null),
     RuleForm("PRODUCT", Null, Null, Null),
     RuleForm("COLLECTION", Null, Col1, G2), RuleForm("COLLECTION", Null, Col1, G1),
     RuleForm("COLLECTION", G1, Col1, G1), RuleForm("COLLECTION", G1, Null, G2),
     RuleForm("COLLECTION", Null, Col1, Null),
     RuleForm("", G1, Null, G2), RuleForm("VENDOR", G1, Null, G2)}

RuleLookups == {"product", "none", "throw"}

RulesInit ==
    /\ shops = [d \in Domains |-> IF d = ShopA THEN "PRO" ELSE "none"]
    /\ rules = {}
    /\ nextRuleId = 0
    /\ events = EmptyBag
    /\ tpc = [p \in Procs |-> "idle"]
    /\ treq = [p \in Procs |-> NoReq]
    /\ out = NoOut
    /\ subs = [d \in Domains |-> Null]

RulesNext ==
    \/ /\ Cardinality(rules) < MaxLiveRules
       /\ \E form \in RuleForms, lookup \in RuleLookups :
             CreateRule(ShopA, form, lookup)
    \/ \E id \in 1..MaxRuleIds, form \in RuleForms, lookup \in RuleLookups :
          EditRule(ShopA, id, form, lookup)
    \/ \E id \in 1..MaxRuleIds : DeleteRule(ShopA, id)

SpecRules == RulesInit /\ [][RulesNext]_vars

\* C15: in every state reached by rule creates and edits, each rule has
\* exactly one of triggerProductId and triggerCollectionId non-null, the one
\* of its triggerType: a PRODUCT rule a product id and no collection id, a
\* COLLECTION rule a collection id and no product id.
C15_OneTriggerOfItsType ==
    \A r \in rules :
        \/ /\ r.triggerType = "PRODUCT"
           /\ r.triggerProductId # Null
           /\ r.triggerCollectionId = Null
        \/ /\ r.triggerType = "COLLECTION"
           /\ r.triggerCollectionId # Null
           /\ r.triggerProductId = Null

\* An edit that submitted both ids with type COLLECTION succeeded on a rule
\* and the rule holds the collection id alone.
C15_Witness ==
    /\ out.op = "edit"
    /\ out.status = 302
    /\ out.req.triggerType = "COLLECTION"
    /\ out.req.triggerProductId # Null
    /\ \E r \in RuleById(out.ruleId) : /\ r.triggerCollectionId = Col1
                                      /\ r.triggerProductId = Null

NoRuleUpsellsItsTrigger ==
    \A r \in rules :
        r.triggerType = "PRODUCT" => r.upsellProductId # r.triggerProductId

\* A create or edit of the installed shop whose form has type PRODUCT and
\* equal trigger and upsell ids is answered 400 with an error on
\* upsellProductId and leaves the rules as they were.
EqualIdsRejected ==
    (/\ out'.op \in {"create", "edit"}
     /\ out'.req.triggerType = "PRODUCT"
     /\ out'.req.triggerProductId = out'.req.upsellProductId)
    => /\ out'.status = 400
       /\ "upsellProductId" \in out'.errors
       /\ rules' = rules

\* C16: in every state reached by rule creates and edits, no PRODUCT rule
\* has upsellProductId equal to its triggerProductId; a create or edit that
\* would make them equal is rejected with a validation error and changes
\* nothing.
C16_UpsellDiffersFromTrigger ==
    [](NoRuleUpsellsItsTrigger) /\ [][EqualIdsRejected]_vars

\* An edit rejected for switching a COLLECTION rule to type PRODUCT with
\* the rule's upsell product as trigger.
C16_Witness ==
    /\ out.op = "edit"
    /\ out.status = 400
    /\ out.req.triggerType = "PRODUCT"
    /\ out.req.triggerProductId # Null
    /\ out.req.triggerProductId = out.req.upsellProductId
    /\ \E r \in RuleById(out.ruleId) : /\ r.triggerType = "COLLECTION"
                                      /\ r.upsellProductId = out.req.upsellProductId

\* An edit that submits the stored upsellProductId sends no product query
\* and writes the stored snapshot back; a query is sent only by an edit
\* whose upsellProductId differs from the stored one, and the snapshot of a
\* rule changes only in such an edit.
EditSnapshotStep ==
    /\ out'.op = "edit"
       => \A r \in RuleById(out'.ruleId) :
             LET same == out'.req.upsellProductId = r.upsellProductId
             IN  /\ same => /\ ~out'.fetched
                            /\ \A r2 \in RuleById(r.id)' :
                                  r2.upsellProductData = r.upsellProductData
                 /\ out'.fetched => ~same
    /\ \A r \in rules :
          \A r2 \in RuleById(r.id)' :
             r2.upsellProductData # r.upsellProductData
             => /\ out'.op = "edit"
                /\ out'.ruleId = r.id
                /\ out'.fetched
                /\ r2.upsellProductId # r.upsellProductId

\* C17: an edit whose submitted upsellProductId equals the rule's stored
\* upsellProductId performs no upsell product lookup and leaves the stored
\* snapshot unchanged; the snapshot is fetched again only by an edit that
\* changes the upsell product.
C17_SnapshotKeptOnSameUpsell == [][EditSnapshotStep]_vars

\* A successful edit that changed the trigger of a rule, kept its upsell
\* product, sent no query and kept the snapshot.
C17_Witness ==
    /\ out.op = "edit"
    /\ out.status = 302
    /\ ~out.fetched
    /\ \E r \in RuleById(out.ruleId) :
          /\ r.upsellProductId = out.req.upsellProductId
          /\ r.upsellProductData # Null
          /\ r.triggerType = "COLLECTION"
          /\ r.upsellProductData[1].of = r.upsellProductId

(***************************************************************************)
(* The events specification: track requests handled one at a time, rules   *)
(* created, edited, toggled and deleted, the billing callback, and shop    *)
(* rows created and deleted.                                               *)
(***************************************************************************)
EventBodies ==
    [method : {"POST"}, eventType : EventTypes, ruleId : 1..MaxRuleIds,
     shopDomain : Domains, sessionId : {"s1"}, productPrice : {Null}]

EventsNext ==
    \/ TrackAdmin
    \/ \E body \in EventBodies : TrackBegin("p1", body)
    \/ TrackSteps("p1")
    \/ \E d \in Domains : InstallShop(d)
    \/ \E d \in Domains : DeleteShop(d)
    \/ \E id \in 1..MaxRuleIds, form \in TrackForms :
          EditRule(ShopA, id, form, "product")
    \/ \E id \in 1..MaxRuleIds : ToggleRule(ShopA, id, FALSE)
    \/ BillingCallback(ShopA, FALSE)

SpecEvents == TrackInit /\ [][EventsNext]_vars

EventsReferenceLiveRows ==
    \A e \in DOMAIN events :
        /\ shops[e.shopId] # "none"
        /\ \E r \in rules : r.id = e.ruleId

\* The rows of both bags, counted.
SameRowsWhere(Kept(_)) ==
    \A e \in DOMAIN events \cup DOMAIN events' :
        CopiesIn(e, events') = IF Kept(e) THEN CopiesIn(e, events) ELSE 0

\* A step leaves the events as they are, or adds one row to them, or removes
\* a rule and with it exactly the events of that rule, or removes a shop and
\* with it exactly the events of that shop.
EventsStep ==
    \/ events' = events
    \/ \E e \in DOMAIN events' : events' = events (+) SetToBag({e})
    \/ \E r \in rules :
          /\ rules' = rules \ {r}
          /\ LET NotOfRule(e) == e.ruleId # r.id IN SameRowsWhere(NotOfRule)
    \/ \E d \in Domains :
          /\ shops[d] # "none"
          /\ shops'[d] = "none"
          /\ LET NotOfShop(e) == e.shopId # d IN SameRowsWhere(NotOfShop)

\* C18: events are append-only except for cascade: no step changes an
\* existing event row; events are removed only by the delete of a rule,
\* which removes exactly that rule's events, and by the delete of a shop,
\* which removes exactly that shop's events; in every state every event
\* references a rule and a shop that exist.
C18_EventsAppendOnly == [](EventsReferenceLiveRows) /\ [][EventsStep]_vars

\* A rule delete that removed two events and left the event of another rule.
C18_Witness ==
    /\ out.op = "delete"
    /\ out.status = 200
    /\ out.removed = 2
    /\ NumEvents = 1

(***************************************************************************)
(* The analytics specification: the loader applied once to a store holding *)
(* events of two shops, each with one rule: session-less impressions and   *)
(* conversions without price and with prices, as the track action writes   *)
(* them.                                                                   *)
(***************************************************************************)
MaxImpressions == 10
MaxConversions == 2

EventBody(eventType, ruleId, shopDomain, productPrice) ==
    [method |-> "POST", eventType |-> eventType, ruleId |-> ruleId,
     shopDomain |-> shopDomain, sessionId |-> "", productPrice |-> productPrice]

P500 == <<"5", "0", "0">>
P1500 == <<"1", "5", "0", "0">>
P999 == <<"9", ".", "9", "9">>
P700 == <<"7", "0", "0">>

ImpressionA == EventRow(EventBody("IMPRESSION", 1, ShopA, P500))
ConversionA == {EventRow(EventBody("CONVERSION", 1, ShopA, price)) : price \in {Null, P500, P1500, P999}}
ImpressionB == EventRow(EventBody("IMPRESSION", 2, ShopB, Null))
ConversionB == EventRow(EventBody("CONVERSION", 2, ShopB, P700))

EventCounts ==
    {c \in [{ImpressionA, ImpressionB, ConversionB} \cup ConversionA
              -> 0..MaxImpressions] :
        /\ \A e \in ConversionA : c[e] <= MaxConversions
        /\ c[ImpressionB] <= 1
        /\ c[ConversionB] <= 1}

AnalyticsInit ==
    /\ shops = [d \in Domains |-> "FREE"]
    /\ rules = {NewRule(1, ShopA, CHOOSE form \in TrackForms : TRUE, "product"),
                NewRule(2, ShopB, CHOOSE form \in TrackForms : TRUE, "product")}
    /\ nextRuleId = 2
    /\ \E c \in EventCounts :
          events = [e \in {x \in DOMAIN c : c[x] > 0} |-> c[e]]
    /\ tpc = [p \in Procs |-> "idle"]
    /\ treq = [p \in Procs |-> NoReq]
    /\ out = NoOut
    /\ subs = [d \in Domains |-> Null]

AnalyticsNext ==
    /\ out = NoOut
    /\ \E d \in Domains : AnalyticsLoader(d)

SpecAnalytics == AnalyticsInit /\ [][AnalyticsNext]_vars

\* The number of stored events of a shop and a type.
CountOf(shopId, eventType) ==
    LET m == {e \in DOMAIN events : e.shopId = shopId /\ e.eventType = eventType}
    IN  BagCardinality([e \in m |-> events[e]])

\* C19: the summary of a shop's events has totalImpressions the number of
\* its IMPRESSION events, totalConversions the number of its CONVERSION
\* events, and conversionRate equal to totalConversions * 100 /
\* totalImpressions when there are impressions and exactly 0 when there
\* are none.
C19_SummaryCountsAndRate ==
    out.op = "analytics"
    => LET impressions == CountOf(out.shop, "IMPRESSION")
           conversions == CountOf(out.shop, "CONVERSION")
           rate == out.summary.conversionRate
       IN  /\ out.summary.totalImpressions = impressions
           /\ out.summary.totalConversions = conversions
           /\ rate.den > 0
           /\ IF impressions > 0
              THEN rate.num * impressions = conversions * 100 * rate.den
              ELSE rate.num = 0

\* 10 impressions and 2 conversions: the rate is 20.
C19_Witness ==
    /\ out.op = "analytics"
    /\ out.summary.totalImpressions = 10
    /\ out.summary.totalConversions = 2
    /\ out.summary.conversionRate = [num |-> 20, den |-> 1]

\* The number of stored CONVERSION events of a shop with a price, given in
\* hundredths.
Priced(shopId, cents) ==
    LET m == {e \in DOMAIN events : /\ e.shopId = shopId
                                    /\ e.eventType = "CONVERSION"
                                    /\ e.productPrice = <<[nan |-> FALSE,
                                                           cents |-> cents]>>}
    IN  BagCardinality([e \in m |-> events[e]])

\* C20: totalRevenue is the sum of productPrice over the shop's CONVERSION
\* events, a null price counting as 0; IMPRESSION events contribute
\* nothing.
C20_RevenueIsSumOfPrices ==
    out.op = "analytics"
    => /\ ~out.summary.totalRevenue.nan
       /\ out.summary.totalRevenue.cents =
             50000 * Priced(out.shop, 50000)
             + 150000 * Priced(out.shop, 150000)
             + 999 * Priced(out.shop, 999)
             + 70000 * Priced(out.shop, 70000)

\* Three conversions with prices 500, 1500 and none, next to impressions
\* and to a priced conversion of the other shop: the revenue is 2000.
C20_Witness ==
    /\ out.op = "analytics"
    /\ out.shop = ShopA
    /\ out.summary.totalConversions = 3
    /\ Priced(ShopA, 50000) = 1
    /\ Priced(ShopA, 150000) = 1
    /\ out.summary.totalImpressions >= 1
    /\ Priced(ShopB, 70000) = 1
    /\ out.summary.totalRevenue = [nan |-> FALSE, cents |-> 200000]

(***************************************************************************)
(* The rollup specification: the analytics loader runs once on a store     *)
(* with two rules of one shop and their events, while the admin toggles    *)
(* and deletes rules between the loader's reads.                           *)
(***************************************************************************)
MaxRuleEvents == 2

RollupRows ==
    {EventRow(EventBody("IMPRESSION", 1, ShopA, Null)),
     EventRow(EventBody("CONVERSION", 1, ShopA, P500)),
     EventRow(EventBody("CONVERSION", 1, ShopA, Null)),
     EventRow(EventBody("IMPRESSION", 2, ShopA, Null)),
     EventRow(EventBody("CONVERSION", 2, ShopA, P1500))}

RollupCounts ==
    {c \in [RollupRows -> 0..MaxRuleEvents] :
        \A e \in RollupRows :
            (e.eventType = "CONVERSION" /\ e.ruleId = 1) \/ (e.eventType = "IMPRESSION" /\ e.ruleId = 2)
                => c[e] <= 1}

RollupInit ==
    /\ shops = [d \in Domains |-> "FREE"]
    /\ rules = {NewRule(1, ShopA, CHOOSE form \in TrackForms : TRUE, "product"),
                NewRule(2, ShopA, CHOOSE form \in TrackForms : TRUE, "product")}
    /\ nextRuleId = 2
    /\ \E c \in RollupCounts :
          events = [e \in {x \in DOMAIN c : c[x] > 0} |-> c[e]]
    /\ tpc = [p \in Procs |-> "idle"]
    /\ treq = [p \in Procs |-> NoReq]
    /\ out = NoOut
    /\ subs = [d \in Domains |-> Null]

RollupNext ==
    \/ /\ out = NoOut
       /\ \E d \in Domains : AnalyticsFind("p1", d)
    \/ AnalyticsLookup("p1")
    \/ AnalyticsReturn("p1")
    \/ /\ tpc["p1"] = "lookup"
       /\ \E id \in {1, 2}, isEnabled \in BOOLEAN : ToggleRule(ShopA, id, isEnabled)
    \/ /\ tpc["p1"] = "lookup"
       /\ \E id \in {1, 2} : DeleteRule(ShopA, id)

SpecRollup == RollupInit /\ [][RollupNext]_vars

\* The number of rows of a bag with a ruleId and an eventType.
RowsIn(bag, ruleId, eventType) ==
    LET m == {e \in DOMAIN bag : e.ruleId = ruleId /\ e.eventType = eventType}
    IN  BagCardinality([e \in m |-> bag[e]])

\* The number of CONVERSION rows of a bag with a ruleId and a price in
\* hundredths.
PricedIn(bag, ruleId, cents) ==
    LET m == {e \in DOMAIN bag : /\ e.ruleId = ruleId
                                 /\ e.eventType = "CONVERSION"
                                 /\ e.productPrice = <<[nan |-> FALSE,
                                                        cents |-> cents]>>}
    IN  BagCardinality([e \in m |-> bag[e]])

\* An entry holds the summary formulas applied to the rows of its rule and
\* the flag of a rule row.
EntryOf(entry, found, rule) ==
    /\ entry.ruleId = rule.id
    /\ entry.impressions = RowsIn(found, rule.id, "IMPRESSION")
    /\ entry.conversions = RowsIn(found, rule.id, "CONVERSION")
    /\ entry.conversionRate.den > 0
    /\ IF entry.impressions > 0
       THEN entry.conversionRate.num * entry.impressions
               = entry.conversions * 100 * entry.conversionRate.den
       ELSE entry.conversionRate.num = 0
    /\ ~entry.revenue.nan
    /\ entry.revenue.cents = 50000 * PricedIn(found, rule.id, 50000)
                                + 150000 * PricedIn(found, rule.id, 150000)
    /\ entry.isEnabled = rule.isEnabled

\* The sum of the values of a function.
RECURSIVE SumOver(_)
SumOver(f) ==
    IF DOMAIN f = {} THEN 0
    ELSE LET x == CHOOSE x \in DOMAIN f : TRUE
         IN  f[x] + SumOver([y \in DOMAIN f \ {x} |-> f[y]])

\* The lookups of the loader cover the ruleIds of the events read; a lookup
\* that finds the rule adds the entry of that rule, with the flag the rule
\* has then, and one that finds none adds nothing; the response carries
\* the entries, one per rule, and when every ruleId of the events read has
\* its entry the impressions, conversions and revenue of the entries sum
\* to the totals of the summary.
RollupStep ==
    \A p \in Procs :
        /\ (tpc[p] = "idle" /\ tpc'[p] = "lookup")
           => /\ treq'[p].pending = {e.ruleId : e \in DOMAIN treq'[p].found}
              /\ treq'[p].rulePerformance = {}
        /\ (tpc[p] = "lookup" /\ tpc'[p] = "lookup" /\ treq'[p] # treq[p])
           => \E ruleId \in treq[p].pending :
                 /\ treq'[p].pending = treq[p].pending \ {ruleId}
                 /\ treq'[p].found = treq[p].found
                 /\ IF RuleById(ruleId) = {}
                    THEN treq'[p].rulePerformance = treq[p].rulePerformance
                    ELSE \E entry \in treq'[p].rulePerformance :
                            /\ treq'[p].rulePerformance
                                  = treq[p].rulePerformance \cup {entry}
                            /\ \A rule \in RuleById(ruleId) :
                                  EntryOf(entry, treq[p].found, rule)
        /\ (tpc[p] = "lookup" /\ tpc'[p] = "idle")
           => LET found == treq[p].found
                  entries == out'.rulePerformance
                  Impressions == [entry \in entries |-> entry.impressions]
                  Conversions == [entry \in entries |-> entry.conversions]
                  RevenueOf == [entry \in entries |-> entry.revenue.cents]
              IN  /\ treq[p].pending = {}
                  /\ entries = treq[p].rulePerformance
                  /\ \A a, b \in entries : a.ruleId = b.ruleId => a = b
                  /\ {entry.ruleId : entry \in entries}
                        \subseteq {e.ruleId : e \in DOMAIN found}
                  /\ {entry.ruleId : entry \in entries} = {e.ruleId : e \in DOMAIN found}
                     => /\ SumOver(Impressions) = out'.summary.totalImpressions
                        /\ SumOver(Conversions) = out'.summary.totalConversions
                        /\ SumOver(RevenueOf) = out'.summary.totalRevenue.cents

\* C21: the per-rule rollup has one entry for each rule that has at least
\* one event; its impressions, conversions, conversionRate and revenue are
\* the summary formulas applied to the events of that ruleId alone and its
\* isEnabled is the rule's current flag; when the rule table does not
\* change during the computation, the impressions, conversions and revenue
\* of the entries sum to the summary totals.
C21_PerRuleRollup == [][RollupStep]_vars

\* A response with the entries of two rules, one of them enabled while the
\* loader ran, with conversions and revenue on both.
C21_Witness ==
    /\ out.op = "analytics"
    /\ Cardinality(out.rulePerformance) = 2
    /\ \E a, b \in out.rulePerformance :
          /\ a.isEnabled /\ ~b.isEnabled
          /\ a.revenue.cents > 0 /\ b.revenue.cents > 0
          /\ a.impressions > 0
          /\ out.summary.totalRevenue.cents = a.revenue.cents + b.revenue.cents


(***************************************************************************)
(* C22.  The degraded answers of /upsells, under SpecMatch: its requests   *)
(* carry a missing, an unknown (ShopB has no row) and an installed shop,   *)
(* an absent and a blank products parameter, and a store call that throws. *)
(***************************************************************************)
UpsellsAnswered == out.op = "upsells" /\ out.shop # ""

NoCart == out.products = <<>> \/ CartProductIds(out.products) = <<>>

EmptyOffers(status) ==
    /\ out.status = status
    /\ out.body = [keys |-> {"offers"}, error |-> "", offers |-> <<>>]

\* C22: a /upsells request with a shop parameter whose products parameter
\* is empty, or whose shop is unknown, is answered 200 with an empty offers
\* list; one during which a store access throws is answered 500 with an
\* empty offers list; and every such response's body is an offers list and
\* nothing else.
C22_DegradedAnswers ==
    UpsellsAnswered =>
        /\ out.body.keys = {"offers"}
        /\ NoCart => EmptyOffers(200)
        /\ (~out.fault /\ shops[out.shop] = "none") => EmptyOffers(200)
        /\ out.fault => EmptyOffers(500)

C22_Witness ==
    /\ UpsellsAnswered
    /\ out.fault
    /\ out.cart # <<>>
    /\ rules # {}
    /\ EmptyOffers(500)


(***************************************************************************)
(* C23.  The collection lookups of the loader with collection support,     *)
(* under SpecMatch: its requests carry carts of one to three products and  *)
(* a lookup that fails for product 1.                                      *)
(***************************************************************************)
\* The collections of cart product i as this request's lookups answer them.
ListedIn(r, o, i) ==
    /\ o.cart[i] \notin o.failing
    /\ r.triggerCollectionId \in Catalog(o.cart[i])

\* The lookups of the rule at position i of the rules read: one per cart
\* product from the first on, none after the first product listed in the
\* trigger collection, and none for a PRODUCT rule.
LookupsStopAtFirstHit(o, i) ==
    LET r == o.found[i]
        made == o.lookups[i]
    IN  IF r.triggerType = "COLLECTION"
        THEN /\ made # <<>>
             /\ Len(made) <= Len(o.cart)
             /\ \A k \in 1..Len(made) : made[k] = o.cart[k]
             /\ \A k \in 1..(Len(made) - 1) : ~ListedIn(r, o, k)
             /\ Len(made) < Len(o.cart) => ListedIn(r, o, Len(made))
        ELSE made = <<>>

\* C23: a request whose collection lookup fails for some cart product is
\* answered 200 with an offers list all the same; the failing product counts
\* as a member of no collection, so that a COLLECTION rule matches exactly
\* when a cart product whose lookup succeeded is listed in its trigger
\* collection, and a PRODUCT rule exactly when its trigger is in the cart;
\* every matching rule whose upsell is not in the cart is offered (up to the
\* three offers of a response); and the lookups of a COLLECTION rule run
\* through the cart in order, one per cart product, and stop at the first
\* product listed in the collection.
C23_LookupFailureIsNoMatch ==
    Answered("upsellsCollections")
    => /\ out.status = 200
       /\ out.body.keys = {"offers"}
       /\ Len(out.lookups) = Len(out.found)
       /\ \A i \in 1..Len(out.found) :
             LET r == out.found[i]
                 hit == IF r.triggerType = "COLLECTION"
                        THEN \E k \in 1..Len(out.cart) : ListedIn(r, out, k)
                        ELSE InCart(r.triggerProductId, out)
             IN  /\ r.id \in out.triggered <=> hit
                 /\ (/\ hit
                     /\ ~InCart(r.upsellProductId, out)
                     /\ Len(out.found) <= maxOffers)
                    => r.id \in OfferedIds(out)
                 /\ LookupsStopAtFirstHit(out, i)

\* The lookup of cart product 1 failed; a COLLECTION rule is offered for
\* product 2, its lookups having stopped there before product 3, and a
\* PRODUCT rule is offered too.
C23_Witness ==
    /\ Answered("upsellsCollections")
    /\ out.cart = << <<"1">>, <<"2">>, <<"3">> >>
    /\ out.failing = {<<"1">>}
    /\ \E i, j \in 1..Len(out.found) :
          /\ out.found[i].triggerType = "COLLECTION"
          /\ out.found[i].id \in OfferedIds(out)
          /\ out.lookups[i] = << <<"1">>, <<"2">> >>
          /\ out.found[j].triggerType = "PRODUCT"
          /\ out.found[j].id \in OfferedIds(out)


(***************************************************************************)
(* C24.  The admin operations on rules together with the billing page and  *)
(* the billing callback, for a merchant of ShopA; ShopB has no row.        *)
(***************************************************************************)
CapInit ==
    /\ shops = [d \in Domains |-> IF d = ShopA THEN "FREE" ELSE "none"]
    /\ rules = {}
    /\ nextRuleId = 0
    /\ events = EmptyBag
    /\ tpc = [p \in Procs |-> "idle"]
    /\ treq = [p \in Procs |-> NoReq]
    /\ out = NoOut
    /\ subs = [d \in Domains |-> Null]

CapNext ==
    \/ \E form \in BillingForms : CreateRule(ShopA, form, "product")
    \/ \E id \in 1..MaxRuleIds, form \in BillingForms :
          EditRule(ShopA, id, form, "product")
    \/ \E id \in 1..MaxRuleIds, isEnabled \in BOOLEAN :
          ToggleRule(ShopA, id, isEnabled)
    \/ \E id \in 1..MaxRuleIds : DeleteRule(ShopA, id)
    \/ ProviderSet(ShopA, <<[status |-> "ACTIVE",
                             lineItems |-> << <<"9", ".", "9", "9">> >>]>>)
    \/ \E fault \in BOOLEAN : BillingCallback(ShopA, fault)
    \/ \E action \in {"upgrade", "cancel"}, subscriptionId \in {"", "sub"},
          fault \in BOOLEAN :
          BillingAction(ShopA, action, subscriptionId, fault)

SpecCap == CapInit /\ [][CapNext]_vars

\* C24: in every state reached by rule creations, edits, toggles and
\* deletions, billing callbacks and subscription cancellations, a shop whose
\* stored plan is FREE has at most one enabled rule.
C24_FreeShopOneEnabledRule ==
    \A d \in Domains :
        shops[d] = "FREE" => Cardinality(EnabledRulesOf(d)) <= 1


(***************************************************************************)
(* C25.  The creation page and the creation action against the plan gate:  *)
(* Init draws the stored plan of ShopA from the Plan enum of the schema    *)
(* and its rules from the valid forms, and one request follows.            *)
(***************************************************************************)
GateForms == StoreForms \cup {RuleForm("PRODUCT", G1, Null, G1)}

PageInit ==
    /\ \E plan \in Plans :
          shops = [d \in Domains |-> IF d = ShopA THEN plan ELSE "none"]
    /\ \E n \in 0..(MaxRuleIds - 1) :
          \E table \in [1..n -> StoreForms] :
             /\ rules = {NewRule(i, ShopA, table[i], "product") : i \in 1..n}
             /\ nextRuleId = n
    /\ events = EmptyBag
    /\ tpc = [p \in Procs |-> "idle"]
    /\ treq = [p \in Procs |-> NoReq]
    /\ out = NoOut
    /\ subs = [d \in Domains |-> Null]

PageNext ==
    /\ out = NoOut
    /\ \/ \E d \in Domains : NewRuleLoader(d)
       \/ \E d \in Domains, form \in GateForms : CreateRule(d, form, "product")

SpecPage == PageInit /\ [][PageNext]_vars

\* The decision of canPerformAction for the shop as the request finds it.
GateRejects ==
    LET gate == canPerformAction(shops[ShopA],
                                 Cardinality(EnabledRulesOf(ShopA)))
    IN  ~gate.threw /\ ~gate.allowed

PageStep ==
    /\ (out'.op = "create" /\ out'.status \in {302, 400}
            /\ FormErrors(out'.req) = {})
       => ("plan" \in out'.errors <=> GateRejects)
    /\ (out'.op = "newRulePage" /\ out'.status = 200)
       => (out'.canCreateRule <=> ~GateRejects)

\* C25: whatever the stored plan, the number of enabled rules and the
\* submitted isEnabled, a creation with no field error is refused with the
\* plan error exactly when canPerformAction answers allowed = false for the
\* plan and that number, and the page's canCreateRule flag is the same
\* decision.
C25_CreationAppliesGate == [][PageStep]_vars


(***************************************************************************)
(* C26.  Two installed shops, each with one rule and its events; the       *)
(* merchant of ShopA sends the delete, toggle and edit requests of the     *)
(* admin pages with a rule id of their choosing.                           *)
(***************************************************************************)
TenantInit ==
    /\ shops = [d \in Domains |-> "FREE"]
    /\ \E formA \in StoreForms, formB \in StoreForms :
          rules = {NewRule(1, ShopA, formA, "product"),
                   NewRule(2, ShopB, formB, "product")}
    /\ nextRuleId = 2
    /\ \E c \in [{ImpressionA, ImpressionB, ConversionB} -> 0..1] :
          events = [e \in {x \in DOMAIN c : c[x] > 0} |-> c[e]]
    /\ tpc = [p \in Procs |-> "idle"]
    /\ treq = [p \in Procs |-> NoReq]
    /\ out = NoOut
    /\ subs = [d \in Domains |-> Null]

TenantNext ==
    \/ \E id \in 1..MaxRuleIds : DeleteRule(ShopA, id)
    \/ \E id \in 1..MaxRuleIds, isEnabled \in BOOLEAN :
          ToggleRule(ShopA, id, isEnabled)
    \/ \E id \in 1..MaxRuleIds, form \in StoreForms :
          EditRule(ShopA, id, form, "product")

SpecTenant == TenantInit /\ [][TenantNext]_vars

RulesOfShop(d) == {r \in rules : r.shopId = d}

\* C26: a delete, toggle or edit request of the merchant of ShopA, whatever
\* rule id it carries, leaves the rules of ShopB and the events of ShopB as
\* they were.
C26_TenantIsolation ==
    [][/\ RulesOfShop(ShopB)' = RulesOfShop(ShopB)
       /\ EventsOfShop(ShopB)' = EventsOfShop(ShopB)]_vars


(***************************************************************************)
(* C27.  Creation requests only, two at a time: each reads the shop and    *)
(* its enabled rules, then validates and inserts.                          *)
(***************************************************************************)
RaceNext ==
    \/ \E p \in Procs, d \in Domains, form \in StoreForms :
          CreateFind(p, d, form)
    \/ \E p \in Procs, lookup \in {"product", "none", "throw"} :
          CreateInsert(p, lookup)

SpecCreateRace == CapInit /\ [][RaceNext]_vars

\* C27: with creation requests as the only operations on rules, however
\* they interleave, no shop whose stored plan is FREE has two enabled rules.
C27_NoSecondEnabledRule ==
    ~\E r1 \in rules, r2 \in rules :
        /\ r1.id # r2.id
        /\ r1.shopId = r2.shopId
        /\ shops[r1.shopId] = "FREE"
        /\ r1.isEnabled /\ r2.isEnabled


(***************************************************************************)
(* C28.  The upsell snapshot against the upsell reference, under           *)
(* SpecRules: creations and edits with a lookup that finds the product,    *)
(* finds none, or throws.                                                  *)
(***************************************************************************)
\* C28: the upsell snapshot of every stored rule is empty or was fetched for
\* the product that the rule's upsellProductId references; an edit to
\* another upsell product whose lookup finds no product does not leave the
\* snapshot of the previous product on the rule.
C28_SnapshotOfCurrentUpsell ==
    \A r \in rules :
        \/ r.upsellProductData = Null
        \/ r.upsellProductData[1].of = r.upsellProductId


(***************************************************************************)
(* C29.  IMPRESSION requests without a sessionId, under SpecTrackSeq; the  *)
(* empty string stands for an absent, a null and an empty sessionId, which *)
(* `sessionId || null` and the test `&& sessionId` treat alike.            *)
(***************************************************************************)
SessionlessStep ==
    \A p \in Procs :
        (/\ tpc[p] # "idle"
         /\ treq[p].eventType = "IMPRESSION"
         /\ treq[p].sessionId = "")
        => /\ tpc'[p] # "dedup"
           /\ (/\ tpc[p] = "findRule"
               /\ tpc'[p] # "findRule"
               /\ \E r \in rules : /\ r.id = treq[p].ruleId
                                   /\ r.shopId = treq[p].shopDomain)
              => tpc'[p] = "create"
           /\ (/\ tpc[p] = "create"
               /\ tpc'[p] = "idle"
               /\ RuleById(treq[p].ruleId) # {})
              => /\ out'.status = 200
                 /\ out'.tracked
                 /\ BagCardinality(events') = BagCardinality(events) + 1
                 /\ \A e \in DOMAIN events :
                       CopiesIn(e, events') >= CopiesIn(e, events)
                 /\ \E e \in DOMAIN events' :
                       /\ e.eventType = "IMPRESSION"
                       /\ e.sessionId = ""
                       /\ e.ruleId = treq[p].ruleId
                       /\ e.shopId = treq[p].shopDomain
                       /\ CopiesIn(e, events') = CopiesIn(e, events) + 1

\* C29: an IMPRESSION request without a sessionId never reaches the
\* duplicate check: with a known shop and a rule of that shop it appends one
\* IMPRESSION row with a null sessionId and answers tracked=true, whatever
\* session-less IMPRESSION rows of the rule the store already holds.
C29_SessionlessImpressions == [][SessionlessStep]_vars

\* A session-less IMPRESSION just tracked whose row the store now holds as
\* many times as the store has room for.
C29_Witness ==
    /\ out.op = "track"
    /\ out.tracked
    /\ out.req.eventType = "IMPRESSION"
    /\ out.req.sessionId = ""
    /\ CopiesIn(EventRow(out.req), events) = MaxEvents


(***************************************************************************)
(* C30.  The priority column under SpecStore: creations, edits, toggles    *)
(* and deletions of both shops, and the storefront requests that read the  *)
(* rules in ascending priority.                                            *)
(***************************************************************************)
\* C30: every stored rule has priority 0, the column default, so that the
\* ascending-priority read of /upsells can return the enabled rules of a
\* shop with any one of them first.
C30_PriorityNeverAssigned ==
    /\ \A r \in rules : r.priority = 0
    /\ \A d \in Domains :
          \A r \in StorefrontRules(d) :
              \E found \in PriorityOrders(StorefrontRules(d)) : found[1] = r

\* A response for a shop with two enabled rules of different upsells in
\* which the rule created later was read first.
C30_Witness ==
    /\ out.op = "upsells"
    /\ Len(out.found) = 2
    /\ out.found[1].id > out.found[2].id
    /\ out.found[1].upsellProductId # out.found[2].upsellProductId
    /\ \A r \in rules : r.priority = 0

=============================================================================
